---- MODULE Spec2Model ----
(***************************************************************************)
(* Model of SuperBatchVideoCompressor's multi-encoder scheduler            *)
(* (src/src/scheduler/advanced.py) and of its process registry             *)
(* (src/src/utils/process.py, src/src/core/encoder.py execute_ffmpeg).     *)
(*                                                                         *)
(* Spec     : run_batch; up to NumTasks threads call                       *)
(*            AdvancedScheduler.schedule_task concurrently and             *)
(*            scheduler.shutdown() is called once they have all returned.  *)
(* SpecApi  : the same calls while shutdown() or the signal handler's      *)
(*            terminate_all_ffmpeg() may arrive at any time.               *)
(* SpecReg  : NumWorkers threads run execute_ffmpeg while one thread runs  *)
(*            terminate_all_ffmpeg.                                        *)
(* SpecBatch: a batch runner (service.py run_batch or cli.py               *)
(*            run_multi_encoder_mode) is run over a list of files, and then*)
(*            once more over the same files and output tree.               *)
(* SpecProbe: prepare_environment's encoder probe, then                    *)
(*            create_advanced_scheduler, then one file is processed.       *)
(* SpecScenario: two files with NVENC always failing and QSV always        *)
(*            succeeding.                                                  *)
(* SpecShutdown: the calls of Spec while shutdown() may arrive at any time. *)
(* SpecSignal: execute_ffmpeg workers while SIGINT/SIGTERM is delivered to *)
(*            the main thread, whose handler calls terminate_all_ffmpeg.   *)
(* SpecFair : the calls of Spec with the worker threads kept running.      *)
(* SpecTaskId: the calls of Spec with the task ids run_batch's process_file *)
(*            hands to encode_file.                                        *)
(* SpecHybrid: one HybridScheduler.schedule_task call, nothing else        *)
(*            running (src/src/scheduler/hybrid.py).                       *)
(* SpecCalls: one call of calculate_target_bitrate, build_encode_command   *)
(*            or resolve_output_paths, with arguments from bounded sets.   *)
(***************************************************************************)
EXTENDS Integers, Sequences, FiniteSets, TLC

\* ------------------------------------------------------------------ bounds
\* tasks submitted to one run, largest per-encoder max_concurrent, and the
\* number of failing attempts explored in a run of several tasks (a run of a
\* single task is explored with every pattern of failures)
NumTasks == 2
MaxSlot == 2
MaxFailures == 1
\* slot acquisitions that time out in one run
MaxTimeouts == 1

\* -------------------------------------------------------- program constants
max_retries == 10
NoEncoderWaits == 3
AllModesTried == 3

\* ------------------------------------------------------------ enumerations
NVENC == "nvenc"
QSV == "qsv"
VIDEOTOOLBOX == "videotoolbox"
CPU == "cpu"
EncoderType == {NVENC, QSV, VIDEOTOOLBOX, CPU}

HW_DECODE == "hw_decode"
SW_DECODE_LIMITED == "sw_decode_limited"
SW_DECODE == "sw_decode"
DecodeMode == {HW_DECODE, SW_DECODE_LIMITED, SW_DECODE}

NoneVal == "none"

Tasks == 1..NumTasks

VARIABLES
    \* --- AdvancedScheduler
    submitted,        \* number of files handed to schedule_task in this run
    cfg,              \* the constructed scheduler: enabled_encoders, cpu_fallback, slot maxima, max_total_concurrent
    total_semaphore,  \* permits left in self.total_semaphore
    sched_lock,       \* holder of self._lock (0 = free)
    shutdown_flag,    \* self._shutdown
    task_counter,     \* self._task_counter
    \* --- EncoderSlot, one per encoder type
    semaphore,        \* permits left in slot.semaphore
    current_tasks,
    total_completed,
    total_failed,
    release_calls,    \* number of release() calls that passed their locked section (observer)
    \* --- one schedule_task call per task
    pc,
    task_state,       \* TaskState: retry_count, tried_encoders, tried_modes, current_encoder, current_decode_mode, errors
    retry_history,
    sel,              \* locals of _select_encoder: index into enabled_encoders and the available list
    outcome,          \* the success argument of the slot.release() call under way
    result,           \* the TaskResult returned: none / success / closed / exhausted
    history_entries,  \* entries of the retry_history lists of the results returned so far (observer)
    _current_task_id, \* run_batch: the attribute encode_file._current_task_id
    encode_task_id,   \* run_batch: task_id as read by each call's latest encode_file call (stats["task_id"])
    permits,          \* the calls that hold a permit of total_semaphore (observer)
    slot_held,        \* the slot whose semaphore permit each call holds, or none (observer)
    timeouts,         \* slot.acquire calls that timed out so far (bounded by MaxTimeouts)
    failures,         \* attempts that failed or raised so far (bounded by MaxFailures)
    \* --- process registry (src/src/utils/process.py)
    shutdown_requested, \* _shutdown_requested
    registry,           \* _ffmpeg_processes
    proc,               \* child process of each worker: state and whether it was signalled
    wpc,                \* position of each execute_ffmpeg call
    tpc,                \* position of terminate_all_ffmpeg
    snapshot,           \* terminate_all_ffmpeg's local list `processes`
    pending,            \* the processes the loop under way in terminate_all_ffmpeg has not visited yet
    \* --- batch runner (src/src/service.py run_batch, src/cli.py run_multi_encoder_mode)
    runner,             \* which of the two batch runners is running
    files,              \* the video files found: too small?, source codec hardware-decodable?, output path
    out_exists,         \* per output path: the final file exists
    tmp_exists,         \* per output path: the tmp_<basename> sibling exists
    files_to_process,   \* the files the pre-check passes on to the scheduler, in order
    prechecked,         \* the files the pre-check recorded as SKIP_EXISTS
    rename_failed,      \* the tasks that had shutil.move fail in this run (observer)
    run,                \* number of the batch run under way (0 = none)
    bpc,                \* position of the batch runner
    exit_code,          \* the process exit code, once the run is over
    interrupted,        \* the operator's interrupt has been delivered
    had_output,         \* the output paths that existed when the run started (observer)
    had_tmp,            \* the tmp_<basename> files that were there when the process started (observer)
    boot,               \* startup: the encoders configuration, the probe's findings and the scheduler built from them
    main,               \* the main thread: signals delivered to it and the terminate_all_ffmpeg calls it is inside
    call                \* one call of a pure function: its name, its arguments and what it returned

cfgVars == <<submitted, cfg>>
slotVars == <<semaphore, current_tasks, total_completed, total_failed, release_calls>>
idVars == <<_current_task_id, encode_task_id>>
taskVars == <<pc, task_state, retry_history, sel, outcome, result, history_entries, idVars>>
budgetVars == <<failures, timeouts>>
schedVars == <<cfgVars, total_semaphore, sched_lock, shutdown_flag, task_counter,
               slotVars, taskVars, permits, slot_held, budgetVars>>
regVars == <<shutdown_requested, registry, proc, wpc, tpc, snapshot, pending>>
batchVars == <<runner, files, out_exists, tmp_exists, files_to_process, prechecked,
               rename_failed, run, bpc, exit_code, interrupted, had_output, had_tmp>>
vars == <<schedVars, regVars, batchVars, boot, main, call>>

\* ---------------------------------------------------------- configurations
\* AdvancedScheduler.__init__: enabled_encoders in priority order, one slot
\* per enabled encoder plus the CPU slot when cpu_fallback is on.
HwOrders == {<<>>, <<NVENC>>, <<NVENC, QSV>>, <<NVENC, VIDEOTOOLBOX, QSV>>}

\* values of scheduler.max_total_concurrent
TotalCaps == {1, 2}

Range(s) == {s[i] : i \in 1..Len(s)}

Configs ==
    {c \in [enabled_encoders : HwOrders,
            cpu_fallback : BOOLEAN,
            hw_max : 1..MaxSlot,
            cpu_max : {1},
            max_total_concurrent : TotalCaps] :
        c.enabled_encoders # <<>> \/ c.cpu_fallback}

SlotSet(c) == Range(c.enabled_encoders) \cup (IF c.cpu_fallback THEN {CPU} ELSE {})

max_concurrent(c, e) ==
    IF e \notin SlotSet(c) THEN 0
    ELSE IF e = CPU THEN c.cpu_max ELSE c.hw_max

\* ------------------------------------------------------------- TaskState
NewTaskState ==
    [retry_count |-> 0,
     tried_encoders |-> {},
     tried_modes |-> [e \in EncoderType |-> {}],
     current_encoder |-> NoneVal,
     current_decode_mode |-> HW_DECODE,
     errors |-> <<>>]

NoSel == [i |-> 0, available |-> <<>>, encoder |-> NoneVal, mode |-> NoneVal]

\* -------------------------------------------------- _get_next_decode_mode
_get_next_decode_mode(encoder_type, ts) ==
    LET tried == ts.tried_modes[encoder_type] IN
    IF encoder_type = CPU
    THEN IF SW_DECODE_LIMITED \notin tried THEN SW_DECODE_LIMITED
         ELSE IF SW_DECODE \notin tried THEN SW_DECODE
         ELSE NoneVal
    ELSE IF HW_DECODE \notin tried THEN HW_DECODE
         ELSE IF SW_DECODE_LIMITED \notin tried THEN SW_DECODE_LIMITED
         ELSE IF SW_DECODE \notin tried THEN SW_DECODE
         ELSE NoneVal

\* --------------------------------------------------------- _select_encoder
\* An enabled encoder is passed over when the task has marked it tried and
\* all three modes were used on it.
Filtered(ts, e) ==
    e \in ts.tried_encoders /\ Cardinality(ts.tried_modes[e]) >= AllModesTried

\* first index >= i of enabled_encoders that the filter lets through
NextIdx(ts, i) ==
    LET n == Len(cfg.enabled_encoders)
        ok == {j \in i..n : ~Filtered(ts, cfg.enabled_encoders[j])}
    IN IF ok = {} THEN n + 1 ELSE CHOOSE j \in ok : \A k \in ok : j <= k

\* available.sort(key=load); available[0][0]: the sort is stable, so the
\* first entry of least load wins.  Loads are cur/max compared as fractions.
LoadLeq(a, b) == a.cur * b.max <= b.cur * a.max

\* PickLeastLoaded with a sort that is not stable: among entries of equal
\* least load the last one wins
PickLeastLoadedLast(available) ==
    LET best == {k \in 1..Len(available) :
                    \A j \in 1..Len(available) : LoadLeq(available[k], available[j])}
        k0 == CHOOSE k \in best : \A j \in best : k >= j
    IN available[k0].enc

PickLeastLoaded(available) ==
    LET best == {k \in 1..Len(available) :
                    \A j \in 1..Len(available) : LoadLeq(available[k], available[j])}
        k0 == CHOOSE k \in best : \A j \in best : k <= j
    IN available[k0].enc

\* ---------------------------------------------- the attempt loop's control
\* what a worker does next, as [pc, ts, res, enc, mode]
Step(p, ts, r, e, m) == [pc |-> p, ts |-> ts, res |-> r, enc |-> e, mode |-> m]

\* while task_state.retry_count < task_state.max_retries; past the loop the
\* failure result is built and the finally clause is next
LoopHead(ts) ==
    IF ts.retry_count < max_retries
    THEN Step("select", ts, NoneVal, NoneVal, NoneVal)
    ELSE Step("rel_total", ts, "exhausted", NoneVal, NoneVal)

\* a continue that leaves retry_count as it is
ContinueUncounted(ts) == LoopHead(ts)

\* retry_count += 1; continue
Continue(ts) == LoopHead([ts EXCEPT !.retry_count = @ + 1])

BreakLoop(ts) == Step("rel_total", ts, "exhausted", NoneVal, NoneVal)

\* lines 310-331: what the loop does with the encoder _select_encoder returned
SelectReturned(ts, encoder_type) ==
    IF encoder_type = NoneVal
    THEN IF ts.retry_count < NoEncoderWaits THEN Continue(ts) ELSE BreakLoop(ts)
    ELSE LET decode_mode == _get_next_decode_mode(encoder_type, ts) IN
         IF decode_mode = NoneVal
         THEN Continue([ts EXCEPT !.tried_encoders = @ \cup {encoder_type}])
         ELSE Step("acq_slot", ts, NoneVal, encoder_type, decode_mode)

Apply(t, s) ==
    /\ pc' = [pc EXCEPT ![t] = s.pc]
    /\ task_state' = [task_state EXCEPT ![t] = s.ts]
    /\ result' = [result EXCEPT ![t] = s.res]
    /\ sel' = [sel EXCEPT ![t] = [NoSel EXCEPT !.encoder = s.enc, !.mode = s.mode]]

\* the scan of _select_encoder is over: pick, or go on to the CPU check, or None
ScanDone(t, available) ==
    LET ts == task_state[t] IN
    IF available # <<>>
    THEN /\ Apply(t, SelectReturned(ts, PickLeastLoaded(available)))
         /\ sched_lock' = 0
    ELSE IF cfg.cpu_fallback /\ CPU \notin ts.tried_encoders
    THEN /\ pc' = [pc EXCEPT ![t] = "sel_cpu"]
         /\ sel' = [sel EXCEPT ![t] = [NoSel EXCEPT !.available = available]]
         /\ sched_lock' = t
         /\ UNCHANGED <<task_state, result>>
    ELSE /\ Apply(t, SelectReturned(ts, NoneVal))
         /\ sched_lock' = 0

\* move the scan to index i (or finish it)
ScanTo(t, i, available) ==
    LET j == NextIdx(task_state[t], i) IN
    IF j <= Len(cfg.enabled_encoders)
    THEN /\ pc' = [pc EXCEPT ![t] = "sel_can"]
         /\ sel' = [sel EXCEPT ![t] = [NoSel EXCEPT !.i = j, !.available = available]]
         /\ sched_lock' = t
         /\ UNCHANGED <<task_state, result>>
    ELSE ScanDone(t, available)

\* ------------------------------------------------------------------- Init
RegIdle ==
    /\ shutdown_requested = FALSE
    /\ registry = {}
    /\ proc = <<>>
    /\ wpc = <<>>
    /\ tpc = "off"
    /\ snapshot = {}
    /\ pending = {}

\* AdvancedScheduler.__init__ and EncoderSlot.__init__: a scheduler just built
\* from cfg, no schedule_task call made yet
SchedFresh ==
    /\ total_semaphore = cfg.max_total_concurrent
    /\ sched_lock = 0
    /\ shutdown_flag = FALSE
    /\ task_counter = 0
    /\ semaphore = [e \in EncoderType |-> max_concurrent(cfg, e)]
    /\ current_tasks = [e \in EncoderType |-> 0]
    /\ total_completed = [e \in EncoderType |-> 0]
    /\ total_failed = [e \in EncoderType |-> 0]
    /\ release_calls = [e \in EncoderType |-> 0]
    /\ pc = [t \in Tasks |-> "idle"]
    /\ task_state = [t \in Tasks |-> NewTaskState]
    /\ retry_history = [t \in Tasks |-> <<>>]
    /\ sel = [t \in Tasks |-> NoSel]
    /\ outcome = [t \in Tasks |-> FALSE]
    /\ result = [t \in Tasks |-> NoneVal]
    /\ history_entries = 0
    /\ _current_task_id = 0
    /\ encode_task_id = [t \in Tasks |-> 0]
    /\ permits = {}
    /\ slot_held = [t \in Tasks |-> NoneVal]
    /\ failures = 0
    /\ timeouts = 0

\* Runs of several tasks are explored with up to two hardware encoders, runs
\* of a single task also with all three.
SchedInit ==
    /\ submitted \in 1..NumTasks
    /\ cfg \in Configs
    /\ Len(cfg.enabled_encoders) > 2 => submitted = 1
    /\ SchedFresh

\* no batch run and no startup sequence under way
BatchIdle ==
    /\ runner = NoneVal
    /\ files = <<>>
    /\ out_exists = <<>>
    /\ tmp_exists = <<>>
    /\ files_to_process = <<>>
    /\ prechecked = {}
    /\ rename_failed = {}
    /\ run = 0
    /\ bpc = "off"
    /\ exit_code = NoneVal
    /\ interrupted = FALSE
    /\ had_output = {}
    /\ had_tmp = {}

BootIdle == boot = [stage |-> "off"]

\* no signal has been delivered and no function call is followed
Quiet ==
    /\ main = [base |-> "run", depth |-> 0, lock |-> FALSE, signals |-> 0]
    /\ call = [fn |-> NoneVal]

Init == SchedInit /\ RegIdle /\ BatchIdle /\ BootIdle /\ Quiet

\* ---------------------------------------------------------- schedule_task
\* line 290: a call made after shutdown() returns at once.  Calls start in
\* submission order (service.py 543-546: the executor's queue is FIFO).
Call(t) ==
    /\ pc[t] = "idle"
    /\ t <= submitted
    /\ \A u \in Tasks : u < t => pc[u] # "idle"
    /\ IF shutdown_flag
       THEN /\ pc' = [pc EXCEPT ![t] = "done"]
            /\ result' = [result EXCEPT ![t] = "closed"]
       ELSE /\ pc' = [pc EXCEPT ![t] = "acq_total"]
            /\ UNCHANGED result
    /\ UNCHANGED <<cfgVars, total_semaphore, sched_lock, shutdown_flag, task_counter,
                   slotVars, task_state, retry_history, sel, outcome,
                   permits, slot_held, budgetVars, history_entries, idVars, regVars, batchVars, boot, main, call>>

\* the two batch runners: service.py run_batch and cli.py run_multi_encoder_mode
RUN_BATCH == "run_batch"
RUN_MULTI == "run_multi_encoder_mode"
Runners == {RUN_BATCH, RUN_MULTI}

\* service.py 519: process_file stores its task_id, the file's position in
\* files_to_process, in the attribute of the one encode_file function all
\* workers share.  The executor has max_total_concurrent threads, so a
\* process_file call is under way exactly when its schedule_task call gets the
\* global permit without waiting: the store is taken together with that step.
\* cli.py's process_file (479-491) and other callers of schedule_task pass no
\* task id.
SetTaskId(t) == IF runner = RUN_BATCH THEN t ELSE _current_task_id

\* AcquireTotal with the wait on total_semaphore left out
AcquireTotalNoWait(t) ==
    /\ pc[t] = "acq_total"
    /\ total_semaphore' = total_semaphore - 1
    /\ permits' = permits \cup {t}
    /\ pc' = [pc EXCEPT ![t] = "task_id"]
    /\ _current_task_id' = SetTaskId(t)
    /\ UNCHANGED <<cfgVars, sched_lock, shutdown_flag, task_counter, slotVars,
                   task_state, retry_history, sel, outcome, result, encode_task_id,
                   slot_held, budgetVars, history_entries, regVars, batchVars, boot, main, call>>

\* line 294: total_semaphore.acquire(blocking=True, timeout=None)
AcquireTotal(t) ==
    /\ pc[t] = "acq_total"
    /\ total_semaphore > 0
    /\ total_semaphore' = total_semaphore - 1
    /\ permits' = permits \cup {t}
    /\ pc' = [pc EXCEPT ![t] = "task_id"]
    /\ _current_task_id' = SetTaskId(t)
    /\ UNCHANGED <<cfgVars, sched_lock, shutdown_flag, task_counter, slotVars,
                   task_state, retry_history, sel, outcome, result, encode_task_id,
                   slot_held, budgetVars, history_entries, regVars, batchVars, boot, main, call>>

\* lines 299-306: the task id under self._lock, a fresh TaskState, the loop head
AssignTaskId(t) ==
    /\ pc[t] = "task_id"
    /\ sched_lock = 0
    /\ task_counter' = task_counter + 1
    /\ Apply(t, LoopHead(NewTaskState))
    /\ UNCHANGED <<cfgVars, total_semaphore, sched_lock, shutdown_flag, slotVars,
                   retry_history, outcome, permits, slot_held, budgetVars, history_entries, idVars, regVars, batchVars, boot, main, call>>

\* line 308 / 221: _select_encoder takes self._lock and starts its scan
BeginSelect(t) ==
    /\ pc[t] = "select"
    /\ sched_lock = 0
    /\ ScanTo(t, 1, <<>>)
    /\ UNCHANGED <<cfgVars, total_semaphore, shutdown_flag, task_counter, slotVars,
                   retry_history, outcome, permits, slot_held, budgetVars, history_entries, idVars, regVars, batchVars, boot, main, call>>

\* line 232: slot.can_accept() of the encoder under the scan
SelCanAccept(t) ==
    /\ pc[t] = "sel_can"
    /\ LET e == cfg.enabled_encoders[sel[t].i] IN
       IF current_tasks[e] < max_concurrent(cfg, e)
       THEN /\ pc' = [pc EXCEPT ![t] = "sel_load"]
            /\ UNCHANGED <<task_state, result, sel, sched_lock>>
       ELSE ScanTo(t, sel[t].i + 1, sel[t].available)
    /\ UNCHANGED <<cfgVars, total_semaphore, shutdown_flag, task_counter, slotVars,
                   retry_history, outcome, permits, slot_held, budgetVars, history_entries, idVars, regVars, batchVars, boot, main, call>>

\* line 233: available.append((encoder_type, slot.get_load()))
SelGetLoad(t) ==
    /\ pc[t] = "sel_load"
    /\ LET e == cfg.enabled_encoders[sel[t].i]
           entry == [enc |-> e, cur |-> current_tasks[e], max |-> max_concurrent(cfg, e)]
       IN ScanTo(t, sel[t].i + 1, Append(sel[t].available, entry))
    /\ UNCHANGED <<cfgVars, total_semaphore, shutdown_flag, task_counter, slotVars,
                   retry_history, outcome, permits, slot_held, budgetVars, history_entries, idVars, regVars, batchVars, boot, main, call>>

\* lines 237-241: the CPU slot's can_accept() when no hardware encoder is available
SelCpu(t) ==
    /\ pc[t] = "sel_cpu"
    /\ sched_lock' = 0
    /\ IF current_tasks[CPU] < max_concurrent(cfg, CPU)
       THEN Apply(t, SelectReturned(task_state[t], CPU))
       ELSE Apply(t, SelectReturned(task_state[t], NoneVal))
    /\ UNCHANGED <<cfgVars, total_semaphore, shutdown_flag, task_counter, slotVars,
                   retry_history, outcome, permits, slot_held, budgetVars, history_entries, idVars, regVars, batchVars, boot, main, call>>

\* AcquireSlot with the wait on the slot's semaphore left out
AcquireSlotNoWait(t) ==
    /\ pc[t] = "acq_slot"
    /\ semaphore' = [semaphore EXCEPT ![sel[t].encoder] = @ - 1]
    /\ slot_held' = [slot_held EXCEPT ![t] = sel[t].encoder]
    /\ pc' = [pc EXCEPT ![t] = "acq_inc"]
    /\ UNCHANGED <<cfgVars, total_semaphore, sched_lock, shutdown_flag, task_counter,
                   current_tasks, total_completed, total_failed, release_calls,
                   task_state, retry_history, sel, outcome, result,
                   permits, budgetVars, history_entries, idVars, regVars, batchVars, boot, main, call>>

\* EncoderSlot.acquire, line 109: semaphore.acquire(blocking=True, timeout=5)
AcquireSlot(t) ==
    /\ pc[t] = "acq_slot"
    /\ semaphore[sel[t].encoder] > 0
    /\ semaphore' = [semaphore EXCEPT ![sel[t].encoder] = @ - 1]
    /\ slot_held' = [slot_held EXCEPT ![t] = sel[t].encoder]
    /\ pc' = [pc EXCEPT ![t] = "acq_inc"]
    /\ UNCHANGED <<cfgVars, total_semaphore, sched_lock, shutdown_flag, task_counter,
                   current_tasks, total_completed, total_failed, release_calls,
                   task_state, retry_history, sel, outcome, result,
                   permits, budgetVars, history_entries, idVars, regVars, batchVars, boot, main, call>>

\* lines 329-331: the slot's semaphore stayed empty for the 5 s of the timeout
AcquireTimeout(t) ==
    /\ pc[t] = "acq_slot"
    /\ semaphore[sel[t].encoder] = 0
    /\ timeouts < MaxTimeouts
    /\ timeouts' = timeouts + 1
    /\ Apply(t, Continue(task_state[t]))
    /\ UNCHANGED <<cfgVars, total_semaphore, sched_lock, shutdown_flag, task_counter,
                   slotVars, retry_history, outcome, permits, slot_held, failures, history_entries, idVars, regVars, batchVars, boot, main, call>>

\* lines 359 and 367: task_state.errors.append(f"{retry_info}: ..."); an entry
\* is kept as its retry_info, the (encoder, decode mode) of the failed attempt
AttemptFailed(ts, e, m) == [ts EXCEPT !.errors = Append(@, <<e, m>>)]

\* an attempt record that leaves the decode mode out of tried_modes
RecordAttemptForgetsMode(ts, e, m) ==
    [ts EXCEPT !.current_encoder = e,
               !.current_decode_mode = m]

\* lines 334-339: task_state after the attempt is recorded
RecordAttempt(ts, e, m) ==
    [ts EXCEPT !.current_encoder = e,
               !.current_decode_mode = m,
               !.tried_modes[e] = @ \cup {m}]

\* EncoderSlot.acquire lines 110-114 (current_tasks += 1), then lines 334-350:
\* the attempt is recorded and encode_func is called; run_batch's encode_file
\* begins by reading its task id from the function attribute (service.py 284)
AcquireCount(t) ==
    /\ pc[t] = "acq_inc"
    /\ current_tasks' = [current_tasks EXCEPT ![sel[t].encoder] = @ + 1]
    /\ task_state' = [task_state EXCEPT ![t] = RecordAttempt(@, sel[t].encoder, sel[t].mode)]
    /\ retry_history' = [retry_history EXCEPT ![t] = Append(@, <<sel[t].encoder, sel[t].mode>>)]
    /\ encode_task_id' = [encode_task_id EXCEPT ![t] = _current_task_id]
    /\ pc' = [pc EXCEPT ![t] = "encode"]
    /\ UNCHANGED <<cfgVars, total_semaphore, sched_lock, shutdown_flag, task_counter,
                   semaphore, total_completed, total_failed, release_calls,
                   sel, outcome, result, permits, slot_held, budgetVars, history_entries, _current_task_id, regVars, batchVars, boot, main, call>>

\* a release that gives the slot back only after a successful attempt
ReleaseLockedOnSuccessOnly(e, success) ==
    /\ current_tasks' = [current_tasks EXCEPT ![e] = IF success THEN @ - 1 ELSE @]
    /\ total_completed' = [total_completed EXCEPT ![e] = IF success THEN @ + 1 ELSE @]
    /\ total_failed' = [total_failed EXCEPT ![e] = IF success THEN @ ELSE @ + 1]
    /\ release_calls' = [release_calls EXCEPT ![e] = @ + 1]

\* a release that books every attempt as completed
ReleaseLockedAllCompleted(e, success) ==
    /\ current_tasks' = [current_tasks EXCEPT ![e] = @ - 1]
    /\ total_completed' = [total_completed EXCEPT ![e] = @ + 1]
    /\ total_failed' = total_failed
    /\ release_calls' = [release_calls EXCEPT ![e] = @ + 1]

\* EncoderSlot.release lines 118-124: the section under the slot's lock
ReleaseLocked(e, success) ==
    /\ current_tasks' = [current_tasks EXCEPT ![e] = @ - 1]
    /\ total_completed' = [total_completed EXCEPT ![e] = IF success THEN @ + 1 ELSE @]
    /\ total_failed' = [total_failed EXCEPT ![e] = IF success THEN @ ELSE @ + 1]
    /\ release_calls' = [release_calls EXCEPT ![e] = @ + 1]

\* what encode_func does: returns success, returns a failed result, or raises
Outcomes == {"success", "failed", "raised"}

\* lines 350-370: encode_func is over; slot.release(success) enters its
\* locked section
FuncReturns(t, success) ==
    /\ ReleaseLocked(sel[t].encoder, success)
    /\ outcome' = [outcome EXCEPT ![t] = success]
    /\ pc' = [pc EXCEPT ![t] = "rel_sem"]
    /\ UNCHANGED <<cfgVars, total_semaphore, sched_lock, shutdown_flag, task_counter,
                   semaphore, task_state, retry_history, sel, result,
                   permits, slot_held, timeouts, history_entries, idVars, regVars>>

\* line 350 with an encode_func that is free to succeed, fail or raise
EncodeReturns(t, o) ==
    /\ pc[t] = "encode"
    /\ o # "success" => (submitted = 1 \/ failures < MaxFailures)
    /\ failures' = IF o = "success" THEN failures ELSE failures + 1
    /\ FuncReturns(t, o = "success")
    /\ UNCHANGED <<batchVars, boot, main, call>>

\* ReleaseSlot that hands the global permit back together with the slot on
\* the path that goes on to the next attempt
ReleaseSlotDropsPermit(t) ==
    /\ pc[t] = "rel_sem"
    /\ semaphore' = [semaphore EXCEPT ![sel[t].encoder] = @ + 1]
    /\ slot_held' = [slot_held EXCEPT ![t] = NoneVal]
    /\ outcome' = [outcome EXCEPT ![t] = FALSE]
    /\ IF outcome[t]
       THEN /\ Apply(t, Step("rel_total", task_state[t], "success", NoneVal, NoneVal))
            /\ UNCHANGED <<total_semaphore, permits>>
       ELSE /\ Apply(t, Continue(AttemptFailed(task_state[t], sel[t].encoder, sel[t].mode)))
            /\ total_semaphore' = total_semaphore + 1
            /\ permits' = permits \ {t}
    /\ UNCHANGED <<cfgVars, sched_lock, shutdown_flag, task_counter,
                   current_tasks, total_completed, total_failed, release_calls,
                   retry_history, budgetVars, history_entries, idVars, regVars, batchVars, boot, main, call>>

\* EncoderSlot.release line 125, then lines 354-357 (return the result) or
\* 360-370 (retry_count += 1, next iteration)
ReleaseSlot(t) ==
    /\ pc[t] = "rel_sem"
    /\ semaphore' = [semaphore EXCEPT ![sel[t].encoder] = @ + 1]
    /\ slot_held' = [slot_held EXCEPT ![t] = NoneVal]
    /\ outcome' = [outcome EXCEPT ![t] = FALSE]
    /\ IF outcome[t]
       THEN Apply(t, Step("rel_total", task_state[t], "success", NoneVal, NoneVal))
       ELSE Apply(t, Continue(AttemptFailed(task_state[t], sel[t].encoder, sel[t].mode)))
    /\ UNCHANGED <<cfgVars, total_semaphore, sched_lock, shutdown_flag, task_counter,
                   current_tasks, total_completed, total_failed, release_calls,
                   retry_history, permits, budgetVars, history_entries, idVars, regVars, batchVars, boot, main, call>>

\* line 382: finally: self.total_semaphore.release(); the call is over, its
\* TaskState and the history list go with its frame
ReleaseTotal(t) ==
    /\ pc[t] = "rel_total"
    /\ total_semaphore' = total_semaphore + 1
    /\ permits' = permits \ {t}
    /\ pc' = [pc EXCEPT ![t] = "done"]
    /\ task_state' = [task_state EXCEPT ![t] = NewTaskState]
    /\ retry_history' = [retry_history EXCEPT ![t] = <<>>]
    /\ history_entries' = history_entries + Len(retry_history[t])
    /\ UNCHANGED <<cfgVars, sched_lock, shutdown_flag, task_counter, slotVars,
                   sel, outcome, result, slot_held, budgetVars, idVars, regVars, batchVars, boot, main, call>>

\* AdvancedScheduler.shutdown
Shutdown ==
    /\ ~shutdown_flag
    /\ shutdown_flag' = TRUE
    /\ UNCHANGED <<cfgVars, total_semaphore, sched_lock, task_counter, slotVars,
                   taskVars, permits, slot_held, budgetVars, regVars, batchVars, boot, main, call>>

\* service.py 552-553: run_batch calls scheduler.shutdown() once the executor
\* has been left, when every submitted call has returned
FinalShutdown ==
    /\ \A t \in 1..submitted : pc[t] = "done"
    /\ Shutdown

\* process.py line 60: terminate_all_ffmpeg (signal handler) sets the
\* process-wide flag; from then on execute_ffmpeg refuses to launch
RequestShutdown ==
    /\ ~shutdown_requested
    /\ shutdown_requested' = TRUE
    /\ UNCHANGED <<schedVars, batchVars, boot, main, call, registry, proc, wpc, tpc, snapshot, pending>>

Worker(t) ==
    \/ Call(t)
    \/ AcquireTotal(t)
    \/ AssignTaskId(t)
    \/ BeginSelect(t)
    \/ SelCanAccept(t)
    \/ SelGetLoad(t)
    \/ SelCpu(t)
    \/ AcquireSlot(t)
    \/ AcquireTimeout(t)
    \/ AcquireCount(t)
    \/ \E o \in Outcomes : EncodeReturns(t, o)
    \/ ReleaseSlot(t)
    \/ ReleaseTotal(t)

\* run_batch: the workers, then the final shutdown()
Next ==
    \/ \E t \in Tasks : Worker(t)
    \/ FinalShutdown

Spec == Init /\ [][Next]_vars

\* run_batch with the executor's threads scheduled: as long as some thread
\* can take a step, one of them does (attempts end, timed waits run out).  Runs
\* of more than two tasks are explored with a single encoder slot for one
\* task, which every call has to wait for.
FairInit ==
    /\ Init
    /\ submitted > 2 => (Cardinality(SlotSet(cfg)) = 1 /\ cfg.hw_max = 1)

SpecFair == FairInit /\ [][Next]_vars /\ WF_vars(Next)

\* run_batch's executor section (service.py 515-553) on its own: the files
\* to process have been found, process_file hands each call its task id
TaskIdInit ==
    /\ SchedInit /\ RegIdle /\ BootIdle /\ Quiet
    /\ runner = RUN_BATCH
    /\ files = <<>>
    /\ out_exists = <<>>
    /\ tmp_exists = <<>>
    /\ files_to_process = <<>>
    /\ prechecked = {}
    /\ rename_failed = {}
    /\ run = 0
    /\ bpc = "off"
    /\ exit_code = NoneVal
    /\ interrupted = FALSE
    /\ had_output = {}
    /\ had_tmp = {}

SpecTaskId == TaskIdInit /\ [][Next]_vars

\* the scheduler while a shutdown arrives: shutdown() or the signal handler's
\* terminate_all_ffmpeg() may come while calls are under way
NextApi ==
    \/ \E t \in Tasks : Worker(t)
    \/ Shutdown
    \/ RequestShutdown

SpecApi == Init /\ [][NextApi]_vars

\* the calls while scheduler.shutdown() may come at any time
NextShutdown ==
    \/ \E t \in Tasks : Worker(t)
    \/ Shutdown

SpecShutdown == Init /\ [][NextShutdown]_vars

\* ------------------------------------------------------- process registry
\* threads that each make one execute_ffmpeg call
NumWorkers == 2
Workers == 1..NumWorkers

NoProc == [state |-> "none", signalled |-> FALSE]

\* the scheduler stands still while the registry is explored
RegInit ==
    /\ SchedInit
    /\ submitted = 1
    /\ cfg = [enabled_encoders |-> <<>>, cpu_fallback |-> TRUE, hw_max |-> 1,
              cpu_max |-> 1, max_total_concurrent |-> 1]
    /\ shutdown_requested = FALSE
    /\ registry = {}
    /\ proc = [w \in Workers |-> NoProc]
    /\ wpc = [w \in Workers |-> "start"]
    /\ tpc = "idle"
    /\ snapshot = {}
    /\ pending = {}
    /\ BatchIdle
    /\ BootIdle
    /\ Quiet

\* encoder.py line 34: is_shutdown_requested() read without the lock
ExecCheck(w) ==
    /\ wpc[w] = "start"
    /\ wpc' = [wpc EXCEPT ![w] = IF shutdown_requested THEN "refused" ELSE "spawn"]
    /\ UNCHANGED <<schedVars, batchVars, boot, main, call, shutdown_requested, registry, proc, tpc, snapshot, pending>>

\* encoder.py 38-45: subprocess.Popen starts the child
ExecPopen(w) ==
    /\ wpc[w] = "spawn"
    /\ proc' = [proc EXCEPT ![w] = [state |-> "running", signalled |-> FALSE]]
    /\ wpc' = [wpc EXCEPT ![w] = "register"]
    /\ UNCHANGED <<schedVars, batchVars, boot, main, call, shutdown_requested, registry, tpc, snapshot, pending>>

\* encoder.py 38-45, 69-70: Popen raises (no such executable) and the call
\* returns through the except clause with no child
ExecPopenRaises(w) ==
    /\ wpc[w] = "spawn"
    /\ wpc' = [wpc EXCEPT ![w] = "failed"]
    /\ UNCHANGED <<schedVars, batchVars, boot, main, call, shutdown_requested, registry, proc, tpc, snapshot, pending>>

\* process.py 23-31, called at encoder.py line 46
register_process(w) ==
    /\ wpc[w] = "register"
    /\ registry' = registry \cup {w}
    /\ wpc' = [wpc EXCEPT ![w] = "communicate"]
    /\ UNCHANGED <<schedVars, batchVars, boot, main, call, shutdown_requested, proc, tpc, snapshot, pending>>

\* the child ends, by itself or because of a signal it received
ProcExit(w) ==
    /\ proc[w].state = "running"
    /\ proc' = [proc EXCEPT ![w].state = "exited"]
    /\ UNCHANGED <<schedVars, batchVars, boot, main, call, shutdown_requested, registry, wpc, tpc, snapshot, pending>>

\* encoder.py line 48: communicate() returns once the child has ended
ExecCommunicate(w) ==
    /\ wpc[w] = "communicate"
    /\ proc[w].state = "exited"
    /\ wpc' = [wpc EXCEPT ![w] = "unregister"]
    /\ UNCHANGED <<schedVars, batchVars, boot, main, call, shutdown_requested, registry, proc, tpc, snapshot, pending>>

\* process.py 34-42, called at encoder.py line 50
unregister_process(w) ==
    /\ wpc[w] = "unregister"
    /\ registry' = registry \ {w}
    /\ wpc' = [wpc EXCEPT ![w] = "done"]
    /\ UNCHANGED <<schedVars, batchVars, boot, main, call, shutdown_requested, proc, tpc, snapshot, pending>>

\* process.py line 60
TermSetFlag ==
    /\ tpc = "idle"
    /\ shutdown_requested' = TRUE
    /\ tpc' = "snapshot"
    /\ UNCHANGED <<schedVars, batchVars, boot, main, call, registry, proc, wpc, snapshot, pending>>

\* process.py 62-66: copy the registry under the lock; return if it is empty
TermSnapshot ==
    /\ tpc = "snapshot"
    /\ snapshot' = registry
    /\ pending' = registry
    /\ tpc' = IF registry = {} THEN "done" ELSE "terminate"
    /\ UNCHANGED <<schedVars, batchVars, boot, main, call, shutdown_requested, registry, proc, wpc>>

\* process.py 70-76: one round of the first loop, SIGTERM to a child that
\* poll() reports running
TermSignal(w) ==
    /\ tpc = "terminate"
    /\ w \in pending
    /\ proc' = IF proc[w].state = "running"
               THEN [proc EXCEPT ![w].signalled = TRUE]
               ELSE proc
    /\ pending' = IF pending = {w} THEN snapshot ELSE pending \ {w}
    /\ tpc' = IF pending = {w} THEN "wait" ELSE "terminate"
    /\ UNCHANGED <<schedVars, batchVars, boot, main, call, shutdown_requested, registry, wpc, snapshot>>

\* process.py 79-88: one round of the second loop; a child that has ended is
\* passed over (poll() not None, or wait() returns)
TermWaitEnded(w) ==
    /\ tpc = "wait"
    /\ w \in pending
    /\ proc[w].state = "exited"
    /\ pending' = pending \ {w}
    /\ tpc' = IF pending = {w} THEN "done" ELSE "wait"
    /\ UNCHANGED <<schedVars, batchVars, boot, main, call, shutdown_requested, registry, proc, wpc, snapshot>>

\* process.py 82-88: wait(timeout=3) expires on a child still running, which
\* is then sent SIGKILL
TermWaitKill(w) ==
    /\ tpc = "wait"
    /\ w \in pending
    /\ proc[w].state = "running"
    /\ proc' = [proc EXCEPT ![w].signalled = TRUE]
    /\ pending' = pending \ {w}
    /\ tpc' = IF pending = {w} THEN "done" ELSE "wait"
    /\ UNCHANGED <<schedVars, batchVars, boot, main, call, shutdown_requested, registry, wpc, snapshot>>

execute_ffmpeg(w) ==
    \/ ExecCheck(w)
    \/ ExecPopen(w)
    \/ ExecPopenRaises(w)
    \/ register_process(w)
    \/ ExecCommunicate(w)
    \/ unregister_process(w)

terminate_all_ffmpeg ==
    \/ TermSetFlag
    \/ TermSnapshot
    \/ \E w \in Workers : TermSignal(w) \/ TermWaitEnded(w) \/ TermWaitKill(w)

NextReg ==
    \/ \E w \in Workers : execute_ffmpeg(w)
    \/ \E w \in Workers : ProcExit(w)
    \/ terminate_all_ffmpeg

SpecReg == RegInit /\ [][NextReg]_vars

\* ------------------------------------------------- signals on the main thread
\* SIGINT / SIGTERM deliveries followed in one run
MaxSignals == 2

\* no signal yet: the main thread is inside cli.main's try block and the
\* workers are about to call execute_ffmpeg
SignalInit ==
    /\ SchedInit
    /\ submitted = 1
    /\ cfg = [enabled_encoders |-> <<>>, cpu_fallback |-> TRUE, hw_max |-> 1,
              cpu_max |-> 1, max_total_concurrent |-> 1]
    /\ shutdown_requested = FALSE
    /\ registry = {}
    /\ proc = [w \in Workers |-> NoProc]
    /\ wpc = [w \in Workers |-> "start"]
    /\ tpc = "none"
    /\ snapshot = {}
    /\ pending = {}
    /\ BatchIdle
    /\ BootIdle
    /\ Quiet

\* process.py 174-177: a signal is delivered; signal_handler runs on the main
\* thread, on top of whatever that thread was executing, and calls
\* terminate_all_ffmpeg.  The call it interrupts stays suspended, together
\* with _process_lock if it was inside its with block.
signal_handler ==
    /\ main.base \in {"run", "except"}
    /\ main.signals < MaxSignals
    /\ main' = [main EXCEPT !.depth = @ + 1, !.signals = @ + 1]
    /\ tpc' = "idle"
    /\ snapshot' = {}
    /\ pending' = {}
    /\ UNCHANGED <<schedVars, batchVars, boot, call, shutdown_requested, registry, proc, wpc>>

\* process.py line 62: with _process_lock, a threading.Lock; the call waits
\* while the lock is held, also when its holder is a suspended call of this
\* same thread
TermLock ==
    /\ tpc = "snapshot"
    /\ ~main.lock
    /\ main' = [main EXCEPT !.lock = TRUE]
    /\ tpc' = "copy"
    /\ UNCHANGED <<schedVars, batchVars, boot, call, shutdown_requested, registry, proc, wpc,
                   snapshot, pending>>

\* process.py 63-66: the registry is copied, the lock released; return if the
\* copy is empty
TermCopy ==
    /\ tpc = "copy"
    /\ main' = [main EXCEPT !.lock = FALSE]
    /\ snapshot' = registry
    /\ pending' = registry
    /\ tpc' = IF registry = {} THEN "done" ELSE "terminate"
    /\ UNCHANGED <<schedVars, batchVars, boot, call, shutdown_requested, registry, proc, wpc>>

\* process.py line 178: the handler's call has returned and the handler raises
\* KeyboardInterrupt, which leaves every suspended call beneath it; cli.py
\* 610-613 catches it in main's try block and calls terminate_all_ffmpeg, but
\* nothing catches it when it is raised inside that except clause
HandlerRaises ==
    /\ tpc = "done"
    /\ main.depth > 0
    /\ main' = [main EXCEPT !.depth = 0,
                            !.lock = FALSE,
                            !.base = IF main.base = "run" THEN "except" ELSE "error"]
    /\ tpc' = IF main.base = "run" THEN "idle" ELSE "done"
    /\ UNCHANGED <<schedVars, batchVars, boot, call, shutdown_requested, registry, proc, wpc,
                   snapshot, pending>>

\* cli.py 612-613: the call made by main's except clause returns; return 130
MainReturns ==
    /\ tpc = "done"
    /\ main.depth = 0
    /\ main.base = "except"
    /\ main' = [main EXCEPT !.base = "exit130"]
    /\ UNCHANGED <<schedVars, batchVars, boot, call, regVars>>

NextSignal ==
    \/ \E w \in Workers : execute_ffmpeg(w)
    \/ \E w \in Workers : ProcExit(w)
    \/ signal_handler
    \/ TermSetFlag
    \/ TermLock
    \/ TermCopy
    \/ \E w \in Workers : TermSignal(w) \/ TermWaitEnded(w) \/ TermWaitKill(w)
    \/ HandlerRaises
    \/ MainReturns

SpecSignal == SignalInit /\ [][NextSignal]_vars

\* ------------------------------------------------------------ batch runner
\* a batch is run once and then once more over the same inputs
Runs == {1, 2}

\* output paths: resolve_output_paths maps a.mkv and a.avi to the same a.mp4
Paths == 1..NumTasks

\* the files found by get_video_files; the first file has the first path, and
\* runs of several files are explored with hardware-decodable sources only
FileLists ==
    UNION {{fl \in [1..n -> [small : BOOLEAN, hw_decodable : BOOLEAN, path : Paths]] :
               \A i \in 1..n : fl[i].path <= i /\ (n > 1 => fl[i].hw_decodable)} :
           n \in 1..NumTasks}

\* the schedulers the batch is explored with, the first with no encoder at
\* all; the executor has one worker thread (max_workers = max_total_concurrent
\* = 1), concurrent schedule_task calls being what Spec explores
BatchConfigs ==
    [enabled_encoders : {<<>>, <<NVENC>>},
     cpu_fallback : BOOLEAN,
     hw_max : {1},
     cpu_max : {1},
     max_total_concurrent : {1}]

\* create_advanced_scheduler (advanced.py 401-426) called by a batch runner:
\* the variables of the scheduler it returns
NewScheduler(c) ==
    /\ total_semaphore' = c.max_total_concurrent
    /\ sched_lock' = 0
    /\ shutdown_flag' = FALSE
    /\ task_counter' = 0
    /\ semaphore' = [e \in EncoderType |-> max_concurrent(c, e)]
    /\ current_tasks' = [e \in EncoderType |-> 0]
    /\ total_completed' = [e \in EncoderType |-> 0]
    /\ total_failed' = [e \in EncoderType |-> 0]
    /\ release_calls' = [e \in EncoderType |-> 0]
    /\ pc' = [t \in Tasks |-> "idle"]
    /\ task_state' = [t \in Tasks |-> NewTaskState]
    /\ retry_history' = [t \in Tasks |-> <<>>]
    /\ sel' = [t \in Tasks |-> NoSel]
    /\ outcome' = [t \in Tasks |-> FALSE]
    /\ result' = [t \in Tasks |-> NoneVal]
    /\ history_entries' = 0
    /\ _current_task_id' = 0
    /\ encode_task_id' = [t \in Tasks |-> 0]
    /\ permits' = {}
    /\ slot_held' = [t \in Tasks |-> NoneVal]
    /\ failures' = 0
    /\ timeouts' = 0

\* the process has not started yet: cli.py main / run_batch not entered
BatchInit ==
    /\ cfg \in BatchConfigs
    /\ submitted = 0
    /\ SchedFresh
    /\ RegIdle
    /\ BootIdle
    /\ Quiet
    /\ runner \in Runners
    /\ files \in FileLists
    /\ out_exists = [p \in Paths |-> FALSE]
    /\ tmp_exists = [p \in Paths |-> FALSE]
    /\ files_to_process = <<>>
    /\ prechecked = {}
    /\ rename_failed = {}
    /\ run = 0
    /\ bpc = "start"
    /\ exit_code = NoneVal
    /\ interrupted = FALSE
    /\ had_output = {}
    /\ had_tmp = {}

FileOf(t) == files[files_to_process[t]]
PathOf(t) == FileOf(t).path

\* service.py 165-187 / cli.py 296-306: the files whose output is missing,
\* in the order get_video_files returned them
PreCheckKeepsAll(fl, out) == [i \in 1..Len(fl) |-> i]

PreCheck(fl, out) ==
    SelectSeq([i \in 1..Len(fl) |-> i], LAMBDA i : ~out[fl[i].path])

\* process.py 111-115: the file names cleanup_temp_files takes for temporary
\* files
is_temp(file) ==
    \/ file[1] # <<>> /\ file[1][1] = "tmp_"
    \/ Len(file) >= 2 /\ file[Len(file)] \in {<<"tmp">>, <<"temp">>}

\* a start that leaves the output tree as it is
cleanup_temp_files_Skipped(tmp) == tmp

\* process.py 93-125: every file of the output tree whose name starts with
\* tmp_ is removed
cleanup_temp_files(tmp) == [p \in DOMAIN tmp |-> FALSE]

\* A process starts.  cli.py main 596-601 clears the temporary files of the
\* output tree (cleanup_temp_files), a scheduler is built, and then
\*  - run_batch raises KeyError at service.py line 94: get_stats() has no key
\*    "enabled_hw_encoders" (advanced.py 388-398), so the run ends there;
\*  - run_multi_encoder_mode runs its pre-check (cli.py 296-306) and submits
\*    the remaining files to the executor (cli.py 494-496).
StartRun ==
    /\ bpc \in {"start", "finished", "crashed"}
    /\ run + 1 \in Runs
    /\ run' = run + 1
    /\ cfg' = cfg
    /\ tmp_exists' = cleanup_temp_files(tmp_exists)
    /\ had_output' = {p \in Paths : out_exists[p]}
    /\ had_tmp' = {p \in Paths : tmp_exists[p]}
    /\ prechecked' = IF runner = RUN_BATCH THEN {}
                     ELSE {i \in 1..Len(files) : out_exists[files[i].path]}
    /\ files_to_process' = IF runner = RUN_BATCH THEN <<>>
                           ELSE PreCheck(files, out_exists)
    /\ submitted' = Len(files_to_process')
    /\ NewScheduler(cfg)
    /\ bpc' = IF runner = RUN_BATCH THEN "crashed" ELSE "running"
    /\ exit_code' = IF runner = RUN_BATCH THEN 1 ELSE NoneVal
    /\ rename_failed' = {}
    /\ interrupted' = FALSE
    /\ shutdown_requested' = FALSE
    /\ UNCHANGED <<registry, proc, wpc, tpc, snapshot, pending>>
    /\ UNCHANGED <<runner, files, out_exists, boot, main, call>>

\* encode_file returns to schedule_task (advanced.py 350-370).  In
\* run_multi_encoder_mode every return statement of encode_file builds a
\* src.scheduler.pool.TaskResult with filepath=..., which that class does not
\* have: TypeError, raised again by the except clause (cli.py 475-477), so
\* schedule_task sees the attempt raise.  run_batch's encode_file builds
\* src.scheduler.advanced.TaskResult and returns it.
Return(t, success) ==
    FuncReturns(t, IF runner = RUN_MULTI THEN FALSE ELSE success)

\* encode_file up to the launch of the child (service.py 303-385, cli.py
\* 406-443): file too small, output already there, execute_ffmpeg refusing
\* after shutdown was requested (then the temporary file is removed), or the
\* child starts and opens tmp_<basename>
EncodeBegin(t) ==
    /\ bpc = "running"
    /\ pc[t] = "encode"
    /\ LET p == PathOf(t) IN
       IF FileOf(t).small \/ out_exists[p]
       THEN /\ Return(t, TRUE)
            /\ UNCHANGED tmp_exists
       ELSE IF shutdown_requested
       THEN /\ Return(t, FALSE)
            /\ tmp_exists' = [tmp_exists EXCEPT ![p] = FALSE]
       ELSE /\ pc' = [pc EXCEPT ![t] = "ffmpeg"]
            /\ tmp_exists' = [tmp_exists EXCEPT ![p] = TRUE]
            /\ UNCHANGED <<cfgVars, total_semaphore, sched_lock, shutdown_flag,
                           task_counter, slotVars, task_state, retry_history, sel,
                           outcome, result, permits, slot_held, timeouts, history_entries, idVars, regVars>>
    /\ UNCHANGED <<failures, runner, files, out_exists, files_to_process, prechecked,
                   rename_failed, run, bpc, exit_code, interrupted, had_output, had_tmp, boot, main, call>>

\* how the child and the file operations after it end
EncodeEnds == {"ok", "move_fails", "ffmpeg_fails", "remove_fails"}

\* encode_file from the end of the child on (service.py 435-513, cli.py
\* 445-477): on failure the temporary file is removed if it is there (the
\* removal can fail), on success it is moved to the final path (the move can
\* fail, and does if the temporary file is gone)
EncodeEnd(t, k) ==
    /\ bpc = "running"
    /\ pc[t] = "ffmpeg"
    /\ LET p == PathOf(t) IN
       /\ k \in {"ok", "remove_fails"} => tmp_exists[p]
       /\ k # "ok" => \/ submitted = 1
                      \/ failures < MaxFailures
                      \/ shutdown_requested
                      \/ ~tmp_exists[p]
       /\ failures' = IF k = "ok" \/ shutdown_requested \/ ~tmp_exists[p]
                      THEN failures ELSE failures + 1
       /\ tmp_exists' = [tmp_exists EXCEPT ![p] = IF k \in {"ok", "ffmpeg_fails"} THEN FALSE ELSE @]
       /\ out_exists' = [out_exists EXCEPT ![p] = IF k = "ok" THEN TRUE ELSE @]
       /\ rename_failed' = IF k = "move_fails" THEN rename_failed \cup {t} ELSE rename_failed
    /\ Return(t, k = "ok")
    /\ UNCHANGED <<runner, files, files_to_process, prechecked, run, bpc, exit_code,
                   interrupted, had_output, had_tmp, boot, main, call>>

\* the operator's interrupt: the signal handler (process.py 174-178) calls
\* terminate_all_ffmpeg and raises KeyboardInterrupt in the main thread, which
\* leaves as_completed and waits in the executor's __exit__ for every
\* submitted call, queued ones included
Interrupt ==
    /\ bpc = "running"
    /\ ~interrupted
    /\ interrupted' = TRUE
    /\ shutdown_requested' = TRUE
    /\ UNCHANGED <<schedVars, registry, proc, wpc, tpc, snapshot, pending>>
    /\ UNCHANGED <<runner, files, out_exists, tmp_exists, files_to_process, prechecked,
                   rename_failed, run, bpc, exit_code, had_output, had_tmp, boot, main, call>>

\* service.py 555-601 / cli.py 507-539: fail_count is the number of results
\* with success = False
fail_count == Cardinality({t \in 1..submitted : result[t] # "success"})

\* every call has returned: scheduler.shutdown() in the finally clause, then
\* the exit code: 130 from cli.py main 610-613 after an interrupt, else
\* 0 if fail_count == 0 else 1
FinishRun ==
    /\ bpc = "running"
    /\ \A t \in 1..submitted : pc[t] = "done"
    /\ shutdown_flag' = TRUE
    /\ bpc' = "finished"
    /\ exit_code' = IF interrupted THEN 130 ELSE IF fail_count = 0 THEN 0 ELSE 1
    /\ UNCHANGED <<cfgVars, total_semaphore, sched_lock, task_counter, slotVars,
                   taskVars, permits, slot_held, budgetVars, regVars>>
    /\ UNCHANGED <<runner, files, out_exists, tmp_exists, files_to_process, prechecked,
                   rename_failed, run, interrupted, had_output, had_tmp, boot, main, call>>

\* service.py 515-536 / cli.py 479-491: one worker thread runs schedule_task
\* with encode_file; with a single worker no slot acquisition times out
process_file(t) ==
    \/ Call(t)
    \/ AcquireTotal(t)
    \/ AssignTaskId(t)
    \/ BeginSelect(t)
    \/ SelCanAccept(t)
    \/ SelGetLoad(t)
    \/ SelCpu(t)
    \/ AcquireSlot(t)
    \/ AcquireCount(t)
    \/ EncodeBegin(t)
    \/ \E k \in EncodeEnds : EncodeEnd(t, k)
    \/ ReleaseSlot(t)
    \/ ReleaseTotal(t)

NextBatch ==
    \/ StartRun
    \/ \E t \in Tasks : process_file(t)
    \/ Interrupt
    \/ FinishRun

SpecBatch == BatchInit /\ [][NextBatch]_vars

\* ----------------------------------------------------------------- startup
\* schedule_task without its encode_func call and without slot timeouts
schedule_task(t) ==
    \/ Call(t)
    \/ AcquireTotal(t)
    \/ AssignTaskId(t)
    \/ BeginSelect(t)
    \/ SelCanAccept(t)
    \/ SelGetLoad(t)
    \/ SelCpu(t)
    \/ AcquireSlot(t)
    \/ AcquireCount(t)
    \/ ReleaseSlot(t)
    \/ ReleaseTotal(t)

\* values of config["encoders"]["enabled"] where the key is present
EnabledLists == {<<>>, <<NVENC>>, <<QSV, NVENC>>}

\* config["encoders"] as loaded: the keys "enabled" and "cpu_fallback" may be
\* absent (config/defaults.py has neither), each encoder has its own
\* {"enabled": flag} dictionary
LoadedConfigs ==
    {b \in [stage : {"loaded"},
            keys : SUBSET {"enabled", "cpu_fallback"},
            enabled_list : EnabledLists,
            cpu_fallback : BOOLEAN,
            flags : [EncoderType -> BOOLEAN],
            unavailable : {{}},
            probed : {FALSE}] :
        /\ "enabled" \notin b.keys => b.enabled_list = <<>>
        /\ "cpu_fallback" \notin b.keys => b.cpu_fallback}

\* the scheduler does not exist before create_advanced_scheduler has run
ProbeInit ==
    /\ boot \in LoadedConfigs
    /\ submitted = 0
    /\ cfg = [enabled_encoders |-> <<>>, cpu_fallback |-> FALSE, hw_max |-> 1,
              cpu_max |-> 1, max_total_concurrent |-> 1]
    /\ SchedFresh
    /\ RegIdle
    /\ BatchIdle
    /\ Quiet

\* detect_available_encoders called by prepare_environment (bootstrap.py 60-64)
\* on a dictionary whose values are all dictionaries: an enabled encoder whose
\* check function fails gets enabled = False
detect_available_encoders ==
    /\ boot.stage = "loaded"
    /\ boot.keys = {}
    /\ \E available \in [EncoderType -> BOOLEAN] :
          boot' = [boot EXCEPT
                      !.stage = "probed",
                      !.probed = TRUE,
                      !.unavailable = {e \in EncoderType : boot.flags[e] /\ ~available[e]},
                      !.flags = [e \in EncoderType |-> boot.flags[e] /\ available[e]]]
    /\ UNCHANGED <<schedVars, regVars, batchVars, main, call>>

\* the same call when "enabled" (a list) or "cpu_fallback" (a bool) is among
\* the items: config.get / config.copy raises AttributeError, which
\* prepare_environment lets through
DetectRaises ==
    /\ boot.stage = "loaded"
    /\ boot.keys # {}
    /\ boot' = [boot EXCEPT !.stage = "raised"]
    /\ UNCHANGED <<schedVars, regVars, batchVars, main, call>>

\* self.priority_order = priority_order or ["nvenc", "videotoolbox", "qsv"]
priority_order(b) ==
    IF b.enabled_list # <<>> THEN b.enabled_list ELSE <<NVENC, VIDEOTOOLBOX, QSV>>

\* encoder_configs[name]["enabled"] of create_advanced_scheduler, lines 411-415
ConfigEnabled(b, name) == name \in Range(b.enabled_list) \/ b.flags[name]

\* create_advanced_scheduler and AdvancedScheduler.__init__ lines 192-206: a
\* slot for each name of priority_order that is enabled, and the CPU slot when
\* cpu_fallback is on, whatever encoder_configs["cpu"]["enabled"] says
SchedulerOf(b) ==
    [enabled_encoders |-> SelectSeq(priority_order(b), LAMBDA name : ConfigEnabled(b, name)),
     cpu_fallback |-> b.cpu_fallback,
     hw_max |-> 1,
     cpu_max |-> 1,
     max_total_concurrent |-> 1]

\* the scheduler is built, from the probed configuration (prepare_environment
\* then run_batch, service.py 79) or from the configuration as loaded
\* (run_multi_encoder_mode, cli.py 262), and one file is submitted
create_advanced_scheduler ==
    /\ boot.stage \in {"loaded", "probed"}
    /\ boot' = [boot EXCEPT !.stage = "built"]
    /\ cfg' = SchedulerOf(boot)
    /\ submitted' = 1
    /\ NewScheduler(SchedulerOf(boot))
    /\ UNCHANGED <<history_entries, idVars, regVars, batchVars, main, call>>

NextProbe ==
    \/ detect_available_encoders
    \/ DetectRaises
    \/ create_advanced_scheduler
    \/ \E t \in Tasks : schedule_task(t)
    \/ \E t \in Tasks, o \in Outcomes : EncodeReturns(t, o)

SpecProbe == ProbeInit /\ [][NextProbe]_vars

\* ------------------------------------------- scenario: NVENC down, QSV up
\* NVENC, QSV and CPU with one slot each, a global cap of 3, two files
ScenarioInit ==
    /\ submitted = 2
    /\ cfg = [enabled_encoders |-> <<NVENC, QSV>>, cpu_fallback |-> TRUE,
              hw_max |-> 1, cpu_max |-> 1, max_total_concurrent |-> 3]
    /\ SchedFresh
    /\ RegIdle
    /\ BatchIdle
    /\ BootIdle
    /\ Quiet

\* line 350 with an encode_func whose NVENC attempts all fail and whose QSV
\* attempts all succeed; a CPU attempt may go either way
ScenarioEncode(t) ==
    /\ pc[t] = "encode"
    /\ \E success \in BOOLEAN :
          /\ sel[t].encoder = NVENC => ~success
          /\ sel[t].encoder = QSV => success
          /\ FuncReturns(t, success)
    /\ UNCHANGED <<failures, batchVars, boot, main, call>>

NextScenario ==
    \/ \E t \in Tasks : schedule_task(t)
    \/ \E t \in Tasks : ScenarioEncode(t)

SpecScenario == ScenarioInit /\ [][NextScenario]_vars

\* ===================================================================== claims

AttemptsRunning == {t \in Tasks : pc[t] \in {"encode", "ffmpeg"}}

\* C1: the number of attempts executing at the same time (encode_func calls in
\* progress, over all encoders) never exceeds max_total_concurrent, whatever
\* the per-encoder max_concurrent values are.
C1_GlobalCap == Cardinality(AttemptsRunning) <= cfg.max_total_concurrent

\* C1 witness: the cap is reached with a per-encoder budget larger than the
\* cap, while another call waits for a global permit.
C1_Witness ==
    /\ Cardinality(AttemptsRunning) = cfg.max_total_concurrent
    /\ cfg.hw_max > cfg.max_total_concurrent
    /\ \E t \in Tasks : pc[t] = "acq_total"

\* C2: for every slot, 0 <= current_tasks <= max_concurrent, and
\* total_completed + total_failed is the number of release calls made on it.
C2_SlotAccounting ==
    \A e \in EncoderType :
        /\ 0 <= current_tasks[e]
        /\ current_tasks[e] <= max_concurrent(cfg, e)
        /\ total_completed[e] + total_failed[e] = release_calls[e]

\* C2 witness: a slot is full again after a release, and another call is
\* waiting for its semaphore.
C2_Witness ==
    \E e \in EncoderType :
        /\ current_tasks[e] = max_concurrent(cfg, e)
        /\ release_calls[e] > 0
        /\ semaphore[e] = 0
        /\ \E t \in Tasks : pc[t] = "acq_slot" /\ sel[t].encoder = e
        /\ \E t \in Tasks : pc[t] = "acq_slot" /\ sel[t].encoder = e

\* C3: no worker holds an encoder slot without holding a global-concurrency
\* permit (the permit is taken before any slot and given back after the last).
C3_SlotImpliesPermit ==
    \A t \in Tasks : slot_held[t] # NoneVal => t \in permits

\* C3 witness: a worker holds a slot for a second attempt, still under its
\* permit, after it released the slot of a failed first attempt.
C3_Witness ==
    \E t \in Tasks :
        /\ slot_held[t] # NoneVal
        /\ t \in permits
        /\ Len(retry_history[t]) >= 2

\* ---------------------------------------------------------------- histories
HwEnabled == Range(cfg.enabled_encoders)

Rank(e) == CHOOSE i \in 1..Len(cfg.enabled_encoders) : cfg.enabled_encoders[i] = e

ModeOrderOf(e) ==
    IF e = CPU THEN <<SW_DECODE_LIMITED, SW_DECODE>>
    ELSE <<HW_DECODE, SW_DECODE_LIMITED, SW_DECODE>>

IsPrefix(a, b) == Len(a) <= Len(b) /\ \A i \in 1..Len(a) : a[i] = b[i]

\* the decode modes a history used on encoder e, in order
ModesOn(h, e) ==
    LET on == SelectSeq(h, LAMBDA x : x[1] = e)
    IN [i \in 1..Len(on) |-> on[i][2]]

\* the attempts on e come in the order HW_DECODE, SW_DECODE_LIMITED, SW_DECODE
ModeOrder(h) == \A e \in HwEnabled : IsPrefix(ModesOn(h, e), ModeOrderOf(e))

\* the hardware attempts go encoder by encoder in priority order, starting
\* with the first enabled encoder
EncoderOrder(h) ==
    LET hw == SelectSeq(h, LAMBDA x : x[1] # CPU) IN
    /\ hw # <<>> => hw[1][1] = cfg.enabled_encoders[1]
    /\ \A i, j \in 1..Len(hw) : i < j => Rank(hw[i][1]) <= Rank(hw[j][1])

\* C4 as claimed: under any interleaving the hardware attempts of every task
\* follow the priority order encoder by encoder, each encoder's attempts in
\* the order HW_DECODE, SW_DECODE_LIMITED, SW_DECODE, the first attempt on the
\* highest-priority enabled hardware encoder.
C4_PriorityOrderAlways ==
    \A t \in Tasks : ModeOrder(retry_history[t]) /\ EncoderOrder(retry_history[t])

\* C4 amended: under any interleaving the attempts on each encoder come in
\* the order HW_DECODE, SW_DECODE_LIMITED, SW_DECODE; the priority order
\* between encoders, and the first attempt being on the highest-priority
\* hardware encoder, hold for a task that runs with no other task.
C4_ModeOrderAndSoloPriority ==
    \A t \in Tasks :
        /\ ModeOrder(retry_history[t])
        /\ submitted = 1 => EncoderOrder(retry_history[t])

\* C4 witness: a task running alone has used up its first encoder's three
\* modes and is attempting the next encoder in priority order.
C4_Witness ==
    /\ submitted = 1
    /\ Len(cfg.enabled_encoders) >= 2
    /\ pc[1] = "encode"
    /\ Len(retry_history[1]) = 4
    /\ retry_history[1][4] = <<cfg.enabled_encoders[2], HW_DECODE>>

\* the valid (encoder, decode_mode) pairs of the configuration
ValidPairs ==
    {<<e, m>> : e \in HwEnabled, m \in DecodeMode}
        \cup (IF cfg.cpu_fallback
              THEN {<<CPU, SW_DECODE_LIMITED>>, <<CPU, SW_DECODE>>}
              ELSE {})

\* C5 as claimed: a task attempts CPU only after every (encoder, decode_mode)
\* pair of every enabled hardware encoder has been tried for it, however
\* loaded the hardware slots are.
C5_CpuOnlyAfterAllHardware ==
    \A t \in Tasks : \A i \in 1..Len(retry_history[t]) :
        retry_history[t][i][1] = CPU =>
            \A e \in HwEnabled, m \in DecodeMode :
                \E j \in 1..(i - 1) : retry_history[t][j] = <<e, m>>

\* C6 as claimed: a task that ends exhausted has tried every valid pair.
C6_ExhaustedTriedAll ==
    \A t \in Tasks :
        (pc[t] = "rel_total" /\ result[t] = "exhausted")
            => Range(retry_history[t]) = ValidPairs

SingleEncoder ==
    \/ Len(cfg.enabled_encoders) = 1 /\ ~cfg.cpu_fallback
    \/ cfg.enabled_encoders = <<>> /\ cfg.cpu_fallback

TheEncoder == IF cfg.enabled_encoders = <<>> THEN CPU ELSE cfg.enabled_encoders[1]

Min(a, b) == IF a <= b THEN a ELSE b

\* C7 as claimed: with a single enabled encoder whose attempts all succeed,
\* every task ends successfully with a history of exactly one element and at
\* most min(max_total_concurrent, slot max) attempts run at once.
C7_SingleEncoderIsPool ==
    (SingleEncoder /\ failures = 0) =>
        /\ \A t \in Tasks :
              pc[t] = "rel_total" =>
                  result[t] = "success" /\ Len(retry_history[t]) = 1
        /\ Cardinality(AttemptsRunning)
              <= Min(cfg.max_total_concurrent, max_concurrent(cfg, TheEncoder))

\* C8 as claimed: once shutdown has been requested no worker acquires an
\* encoder slot or adds an entry to its task's history.
C8_NoAttemptAfterShutdown ==
    [][(shutdown_flag \/ shutdown_requested) =>
          \A t \in Tasks :
              /\ slot_held'[t] \in {slot_held[t], NoneVal}
              /\ Len(retry_history'[t]) <= Len(retry_history[t])]_vars

\* C9 as claimed: once terminate_all_ffmpeg has returned the process registry
\* is empty.
C9_RegistryEmptyAfterTerminate == tpc = "done" => registry = {}

\* C10 as claimed: once terminate_all_ffmpeg has returned, no child started by
\* execute_ffmpeg is running without having been sent a signal.
C10_NoChildSurvivesTerminate ==
    tpc = "done" =>
        \A w \in Workers : proc[w].state = "running" => proc[w].signalled

\* ------------------------------------------------------------- TaskResult
\* the dataclass of advanced.py 82-91, as schedule_task fills it when it
\* returns (stats, which the scheduler never writes, is left out): line 290
\* (closed), lines 354-357 (success), lines 372-379 (exhausted)
\* an error summary that keeps the first three errors
ErrorSummaryFirst(errors) ==
    SubSeq(errors, 1, IF Len(errors) < 3 THEN Len(errors) ELSE 3)

\* line 373: task_state.errors[-3:], which line 377 puts in the error text
ErrorSummary(errors) ==
    SubSeq(errors, IF Len(errors) < 3 THEN 1 ELSE Len(errors) - 2, Len(errors))

TaskResult(t) ==
    [success       |-> result[t] = "success",
     filepath      |-> t,
     encoder_used  |-> IF result[t] = "success" THEN sel[t].encoder ELSE NoneVal,
     decode_mode   |-> IF result[t] = "success" THEN sel[t].mode ELSE NoneVal,
     error         |-> IF result[t] = "success" THEN NoneVal
                       ELSE IF result[t] = "exhausted" THEN ErrorSummary(task_state[t].errors)
                       ELSE result[t],
     retry_history |-> IF result[t] \in {"success", "exhausted"}
                       THEN retry_history[t] ELSE <<>>]

\* C18 as claimed: the result of a task that ended because every attempt was
\* used up, or because the scheduler was shut down, has success = false and
\* a skipped flag that is true.
C18_AbandonedResultIsSkipped ==
    \A t \in Tasks :
        result[t] \in {"exhausted", "closed"} =>
            LET r == TaskResult(t) IN
            /\ ~r.success
            /\ "skipped" \in DOMAIN r
            /\ r.skipped

\* ------------------------------------------------------------ batch claims
\* the tasks of the run under way
Submitted == 1..submitted

\* C11 as claimed: once a task has terminated, whatever its outcome, no
\* tmp_<basename> sibling of its final path exists unless another worker is
\* producing it at that moment.
C11_NoTmpAfterTask ==
    \A t \in Submitted :
        pc[t] = "done" =>
            \/ ~tmp_exists[PathOf(t)]
            \/ \E u \in Submitted \ {t} : PathOf(u) = PathOf(t) /\ pc[u] = "ffmpeg"

\* C12 as claimed: after a failed move of the temporary file to the final
\* path the task makes no further attempt: it only releases what it holds and
\* terminates.
C12_RenameFailureEndsTask ==
    \A t \in rename_failed : pc[t] \in {"rel_sem", "rel_total", "done"}

C14_SmallFileNoAttempt ==
    \A t \in Submitted :
        FileOf(t).small => slot_held[t] = NoneVal /\ retry_history[t] = <<>>

\* C16 as claimed: with no hardware encoder enabled and CPU fallback off no
\* file is handed to the scheduler and the run ends with a fatal error.
C16_ZeroEncodersAbort ==
    (cfg.enabled_encoders = <<>> /\ ~cfg.cpu_fallback) =>
        /\ submitted = 0
        /\ bpc \in {"finished", "crashed"} => exit_code = 1

\* the exit code the specification gives a finished run: 130 after an
\* interrupt, 1 if the runner could not start or a task failed, 0 if every
\* task ended in success or a skip, exhaustion of the attempts being a skip
ClaimedExitCode ==
    IF interrupted THEN 130
    ELSE IF bpc = "crashed" \/ \E t \in Submitted : result[t] \notin {"success", "exhausted", "closed"}
    THEN 1
    ELSE 0

\* C17 as claimed: the exit code of a run that is over is 130, 1 or 0 by the
\* rule above.
C17_ExitCode == bpc \in {"finished", "crashed"} => exit_code = ClaimedExitCode

\* C19 as claimed: a task whose source codec the encoder cannot decode in
\* hardware never attempts (encoder, HW_DECODE).
C19_NoHwDecodeForUnsupportedCodec ==
    \A t \in Submitted :
        ~FileOf(t).hw_decodable =>
            \A i \in 1..Len(retry_history[t]) : retry_history[t][i][2] # HW_DECODE

\* C15 as claimed: the scheduler built at startup has no slot for an encoder
\* the probe found unavailable, and no task attempts such an encoder.
C15_UnavailableEncoderUnused ==
    boot.stage = "built" =>
        \A e \in boot.unavailable :
            /\ e \notin SlotSet(cfg)
            /\ \A t \in Tasks : \A i \in 1..Len(retry_history[t]) :
                  retry_history[t][i][1] # e

\* C20 as claimed: in the scenario, once both tasks have returned, both
\* succeeded, and the slot counters are NVENC 0 completed / 6 failed, QSV 2
\* completed / 0 failed, CPU 0 completed / 0 failed.
C20_BothOnQsvAfterNvenc ==
    (\A t \in Submitted : pc[t] = "done") =>
        /\ \A t \in Submitted : result[t] = "success"
        /\ total_completed[NVENC] = 0 /\ total_failed[NVENC] = 6
        /\ total_completed[QSV] = 2 /\ total_failed[QSV] = 0
        /\ total_completed[CPU] = 0 /\ total_failed[CPU] = 0

\* C21: the result of a task that ends because every attempt failed has
\* success = false and an error made of the errors of its last three failed
\* attempts (all of them when there were fewer) in order of occurrence; with
\* only NVENC enabled and CPU fallback off its retry_history has at most 3
\* entries.
C21_ExhaustedErrorSummary ==
    \A t \in Tasks :
        (pc[t] = "rel_total" /\ result[t] = "exhausted") =>
            LET r == TaskResult(t)
                h == retry_history[t]
                n == IF Len(h) < 3 THEN Len(h) ELSE 3
            IN /\ ~r.success
               /\ r.error = SubSeq(h, Len(h) - n + 1, Len(h))
               /\ (cfg.enabled_encoders = <<NVENC>> /\ ~cfg.cpu_fallback) =>
                      Len(r.retry_history) <= 3

\* C21 witness: a task ends exhausted after more than three failed attempts,
\* so that the summary leaves the earliest errors out.
C21_Witness ==
    \E t \in Tasks :
        /\ pc[t] = "rel_total"
        /\ result[t] = "exhausted"
        /\ Len(task_state[t].errors) > 3

\* C27: no (encoder, decode mode) pair appears twice in the retry history of
\* a task, whatever the attempts' outcomes, the encoders selected and the
\* slot acquisitions that timed out.
C27_NoPairTwice ==
    \A t \in Tasks :
        \A i, j \in 1..Len(retry_history[t]) :
            i # j => retry_history[t][i] # retry_history[t][j]

\* C27 witness: a slot acquisition has timed out, an attempt has failed and a
\* task is making its second attempt.
C27_Witness ==
    /\ timeouts > 0
    /\ failures > 0
    /\ \E t \in Tasks : pc[t] = "encode" /\ Len(retry_history[t]) >= 2

\* C30 as claimed: a slot acquisition that times out adds an entry to the
\* error list of the task that made it, and the task goes on with its loop.
C30_TimeoutRecorded ==
    [][timeouts' = timeouts + 1 =>
          \E t \in Tasks :
              /\ pc[t] = "acq_slot"
              /\ pc'[t] # "acq_slot"
              /\ Len(task_state'[t].errors) = Len(task_state[t].errors) + 1]_vars

\* C28: a call holds an encoder slot only from its acquisition to the one
\* release that follows the attempt, whatever the attempt's outcome: each
\* slot's permits and current count match the calls that are inside an
\* attempt, and once every call has returned, also after a shutdown, every
\* slot's current count is 0 and all slot and global permits are free.
C28_OneReleasePerAcquisition ==
    /\ \A t \in Tasks :
          slot_held[t] # NoneVal => pc[t] \in {"acq_inc", "encode", "ffmpeg", "rel_sem"}
    /\ \A e \in EncoderType :
          /\ semaphore[e] + Cardinality({t \in Tasks : slot_held[t] = e})
                = max_concurrent(cfg, e)
          /\ current_tasks[e]
                = Cardinality({t \in AttemptsRunning : sel[t].encoder = e})
    /\ (\A t \in Submitted : pc[t] = "done") =>
          /\ \A e \in EncoderType :
                current_tasks[e] = 0 /\ semaphore[e] = max_concurrent(cfg, e)
          /\ total_semaphore = cfg.max_total_concurrent
          /\ permits = {}

\* C28 witness: every call has returned after a shutdown, one of them turned
\* away by it, and attempts succeeded and failed before.
C28_Witness ==
    /\ \A t \in Submitted : pc[t] = "done"
    /\ shutdown_flag
    /\ \E t \in Submitted : result[t] = "closed"
    /\ \E e \in EncoderType : total_failed[e] > 0
    /\ \E e \in EncoderType : total_completed[e] > 0

\* C29 as claimed: a call of terminate_all_ffmpeg made by the signal handler
\* while the main thread is inside an earlier call completes without
\* deadlock or error and leaves the shutdown flag set: no call waits for
\* _process_lock while a suspended call of its own thread holds it, no
\* KeyboardInterrupt leaves main uncaught, and the flag is set at exit.
C29_TerminateReentrant ==
    /\ ~(tpc = "snapshot" /\ main.lock)
    /\ main.base # "error"
    /\ main.base = "exit130" => shutdown_requested

\* ---------------------------------------------------------- pure functions
\* calculate_target_bitrate, build_encode_command and resolve_output_paths
\* are followed one call at a time: `call` holds the function, its arguments
\* and, once the call has returned, its return value.
MIN_BITRATE == 500000
\* BITRATE_RATIO = 0.5 as numerator and denominator
BITRATE_RATIO == <<1, 2>>
\* the cap used when the table has no entry at all
FallbackMaxBitrate == 9000000

MAX_BITRATE_BY_RESOLUTION ==
    (720 :> 1500000) @@ (1080 :> 3000000) @@ (1440 :> 5000000) @@ (2160 :> 9000000)

\* MaxBitrateFor without the loop's break: the last threshold that fits wins
MaxBitrateForNoBreak(table, short_side) ==
    LET fits == {r \in DOMAIN table : short_side <= r}
    IN  IF fits # {} THEN table[CHOOSE r \in fits : \A q \in fits : q <= r]
        ELSE IF DOMAIN table # {} THEN table[CHOOSE r \in DOMAIN table : \A q \in DOMAIN table : q <= r]
        ELSE FallbackMaxBitrate

\* the cap of the short side's bucket: the first threshold, in increasing
\* order, that is not below the short side; the largest threshold's cap when
\* the short side exceeds them all; 9000000 for an empty dict
MaxBitrateFor(table, short_side) ==
    LET fits == {r \in DOMAIN table : short_side <= r}
    IN  IF fits # {} THEN table[CHOOSE r \in fits : \A q \in fits : r <= q]
        ELSE IF DOMAIN table # {} THEN table[CHOOSE r \in DOMAIN table : \A q \in DOMAIN table : q <= r]
        ELSE FallbackMaxBitrate

\* int(original_bitrate * BITRATE_RATIO) truncates; the bitrate is not negative
calculate_target_bitrate(original_bitrate, width, height, force_bitrate, forced_value, max_bitrate_by_resolution) ==
    IF force_bitrate THEN forced_value
    ELSE LET table == IF max_bitrate_by_resolution.none
                      THEN MAX_BITRATE_BY_RESOLUTION
                      ELSE max_bitrate_by_resolution.dict
             max_bitrate == MaxBitrateFor(table, Min(width, height))
             new_bitrate == (original_bitrate * BITRATE_RATIO[1]) \div BITRATE_RATIO[2]
             capped == IF new_bitrate <= max_bitrate THEN new_bitrate ELSE max_bitrate
         IN  IF MIN_BITRATE >= capped THEN MIN_BITRATE ELSE capped

\* the calls followed: source bitrates on both sides of the floor and of
\* every cap, the short side in, between and above the buckets, the forced
\* bitrate of the configuration (forced when positive), and for the table
\* None, an empty dict, a dict with a cap below the floor and a one-entry dict
BitrateCalls ==
    [fn : {"calculate_target_bitrate"},
     original_bitrate : {0, 400000, 999999, 1000001, 2500000, 4000000, 10000000,
                         30000000},
     size : {<<640, 480>>, <<1280, 720>>, <<1920, 1080>>, <<1080, 1920>>,
             <<2560, 1440>>, <<3840, 2160>>, <<7680, 4320>>},
     forced_value : {0, 3000000},
     max_bitrate_by_resolution :
         {[none |-> TRUE, dict |-> <<>>], [none |-> FALSE, dict |-> <<>>],
          [none |-> FALSE, dict |-> (720 :> 300000) @@ (1080 :> 3000000)],
          [none |-> FALSE, dict |-> (1080 :> 2000000)]},
     done : {FALSE}, ret : {NoneVal}]

CalcBitrate ==
    /\ call.fn = "calculate_target_bitrate"
    /\ ~call.done
    /\ call' = [call EXCEPT !.done = TRUE,
                            !.ret = calculate_target_bitrate(
                                call.original_bitrate, call.size[1], call.size[2],
                                call.forced_value > 0, call.forced_value,
                                call.max_bitrate_by_resolution)]
    /\ UNCHANGED <<schedVars, regVars, batchVars, boot, main>>

\* ------------------------------------------------------------ output paths
\* A path is the sequence of its components and a component is the sequence
\* of its dot-separated parts, each part a sequence of pieces of text:
\* "sub/a.b.mkv" is << <<<<"sub">>>>, <<<<"a">>, <<"b">>, <<"mkv">>>> >> and the
\* hidden file ".mp4" is the component << <<>>, <<"mp4">> >>.
\* a mutant of stem: everything after the first dot is taken for the suffix
stem_FirstDot(name) == <<name[1]>>

\* pathlib's stem: the name without its suffix, and the suffix starts at the
\* last dot unless that dot is the first or the last character of the name
stem(name) ==
    IF /\ Len(name) >= 2
       /\ name[Len(name)] # <<>>
       /\ (Len(name) >= 3 \/ name[1] # <<>>)
    THEN SubSeq(name, 1, Len(name) - 1)
    ELSE name

\* os.path.relpath(path, start): the components after the common prefix,
\* preceded by one ".." for each component of start outside it
relpath(path, start) ==
    LET common == {k \in 0..Min(Len(path), Len(start)) :
                       \A j \in 1..k : path[j] = start[j]}
        i == CHOOSE k \in common : \A q \in common : q <= k
    IN  [k \in 1..(Len(start) - i) |-> <<<<"..">>>>] \o SubSeq(path, i + 1, Len(path))

\* a mutant of resolve_output_paths: the temporary file is put in the output
\* root
resolve_output_paths_TmpInRoot(filepath, input_folder, output_folder, keep_structure) ==
    LET relative_path == relpath(filepath, input_folder)
        output_path ==
            IF keep_structure
            THEN output_folder \o SubSeq(relative_path, 1, Len(relative_path) - 1)
                     \o <<Append(stem(relative_path[Len(relative_path)]), <<"mp4">>)>>
            ELSE Append(output_folder, Append(stem(filepath[Len(filepath)]), <<"mp4">>))
        basename == output_path[Len(output_path)]
    IN  <<output_path,
          Append(output_folder, [basename EXCEPT ![1] = <<"tmp_">> \o @])>>

\* Path(relative_path).with_suffix('.mp4') replaces the suffix of the last
\* component; the temporary file is "tmp_" + basename in the directory of the
\* final file
resolve_output_paths(filepath, input_folder, output_folder, keep_structure) ==
    LET relative_path == relpath(filepath, input_folder)
        output_path ==
            IF keep_structure
            THEN output_folder \o SubSeq(relative_path, 1, Len(relative_path) - 1)
                     \o <<Append(stem(relative_path[Len(relative_path)]), <<"mp4">>)>>
            ELSE Append(output_folder, Append(stem(filepath[Len(filepath)]), <<"mp4">>))
        dirname == SubSeq(output_path, 1, Len(output_path) - 1)
        basename == output_path[Len(output_path)]
    IN  <<output_path, Append(dirname, [basename EXCEPT ![1] = <<"tmp_">> \o @])>>

\* the calls followed: every file get_video_files finds lies under the input
\* folder; the files are in the root and in subdirectories, with dots in
\* directory and file names; one is the hidden file ".mp4", two differ in
\* their extension only, and one is named tmp_a.mkv
PathCalls ==
    [fn : {"resolve_output_paths"},
     input_folder : {<< <<<<"in">>>> >>, << <<<<"data">>>>, <<<<"in">>>> >>},
     relative : {<< <<<<"a">>, <<"mkv">>>> >>,
                 << <<<<"a">>, <<"avi">>>> >>,
                 << <<<<"tmp_", "a">>, <<"mkv">>>> >>,
                 << <<<<"sub">>>>, <<<<"a">>, <<"mkv">>>> >>,
                 << <<<<"sub">>>>, <<<<"a">>, <<"mp4">>>> >>,
                 << <<<<"season">>, <<"1">>>>, <<<<"sub">>>>,
                    <<<<"a">>, <<"b">>, <<"mkv">>>> >>,
                 << <<<<"sub">>>>, <<<<>>, <<"mp4">>>> >>},
     output_folder : {<<>>, << <<<<"out">>>> >>, << <<<<"in">>>>, <<<<"out">>>> >>},
     keep_structure : BOOLEAN, done : {FALSE}, ret : {NoneVal}]

ResolvePaths ==
    /\ call.fn = "resolve_output_paths"
    /\ ~call.done
    /\ call' = [call EXCEPT !.done = TRUE,
                            !.ret = resolve_output_paths(
                                call.input_folder \o call.relative, call.input_folder,
                                call.output_folder, call.keep_structure)]
    /\ UNCHANGED <<schedVars, regVars, batchVars, boot, main>>

\* ---------------------------------------------------------- command builder
\* HW_ENCODERS and SW_ENCODERS of config/defaults.py; NoneVal stands for None
HW_ENCODERS ==
    [nvenc |-> [hevc |-> "hevc_nvenc", avc |-> "h264_nvenc", av1 |-> "av1_nvenc",
                hwaccel |-> "cuda", hwaccel_output_format |-> "cuda"],
     videotoolbox |-> [hevc |-> "hevc_videotoolbox", avc |-> "h264_videotoolbox",
                       av1 |-> NoneVal, hwaccel |-> "videotoolbox",
                       hwaccel_output_format |-> NoneVal],
     qsv |-> [hevc |-> "hevc_qsv", avc |-> "h264_qsv", av1 |-> "av1_qsv",
              hwaccel |-> "qsv", hwaccel_output_format |-> "qsv"]]

SW_ENCODERS == [hevc |-> "libx265", avc |-> "libx264", av1 |-> "libsvtav1"]

\* the one list of source codecs build_encode_command decodes in hardware,
\* whatever the encoder
supported_hw_decode_codecs == {"h264", "hevc", "av1", "vp9", "mpeg2video"}

\* a mutant of UseHwDecode: the source codec is not looked up
UseHwDecodeAnyCodec(decode_mode, source_codec, hwaccel) ==
    decode_mode = HW_DECODE /\ hwaccel # NoneVal

\* the condition of the hardware-decode branch
UseHwDecode(decode_mode, source_codec, hwaccel) ==
    /\ decode_mode = HW_DECODE
    /\ source_codec \in supported_hw_decode_codecs
    /\ hwaccel # NoneVal

\* The command and its display label. The label is the sequence of the
\* pieces of the formatted string: the encoder's display name, the output
\* codec's display name or the software encoder, "hw_decode+hw_encode" or
\* "sw_decode+hw_encode" for the two labels of a hardware encoder, and
\* "limit_fps" when the frame rate is capped. filepath, temp_filename, the
\* bitrate, the audio bitrate and the frame-rate cap stand for themselves in
\* the command. output_codec and the two limit flags are read from the
\* configuration.
build_encode_command(source_codec, encoder_type, decode_mode, config) ==
    LET output_codec == config.output_codec
        hw_display == [nvenc |-> "NVIDIA NVENC", qsv |-> "Intel QSV",
                       videotoolbox |-> "Apple VideoToolbox", cpu |-> "CPU"]
        codec_display == [hevc |-> "HEVC", avc |-> "H.264", av1 |-> "AV1"][output_codec]
        tail == <<"-c:a", "aac", "-b:a", "AUDIO_BITRATE", "temp_filename">>
        cpu_command(mode) ==
            LET sw_encoder == SW_ENCODERS[output_codec]
                encoder_params == IF sw_encoder = "libsvtav1" THEN <<"-preset", "6">>
                                  ELSE <<"-preset", "medium">>
                limited == mode = SW_DECODE_LIMITED /\ config.limit_fps_software_encode
            IN  [name |-> <<hw_display[CPU], sw_encoder>>
                          \o (IF limited THEN <<"limit_fps">> ELSE <<>>),
                 cmd |-> <<"ffmpeg", "-y", "-hide_banner", "-i", "filepath">>
                         \o (IF limited THEN <<"-vf", "fps=max_fps">> ELSE <<>>)
                         \o <<"-c:v", sw_encoder>> \o encoder_params
                         \o <<"-b:v", "bitrate">> \o tail]
    IN  IF encoder_type = CPU THEN cpu_command(decode_mode)
        ELSE
        LET hw_config == HW_ENCODERS[encoder_type]
            hw_encoder == hw_config[output_codec]
            hwaccel == hw_config.hwaccel
            hwaccel_output_format == hw_config.hwaccel_output_format
            limited == decode_mode = SW_DECODE_LIMITED /\ config.limit_fps_software_decode
        IN  IF hw_encoder = NoneVal THEN cpu_command(SW_DECODE)
            ELSE IF UseHwDecode(decode_mode, source_codec, hwaccel)
            THEN [name |-> <<hw_display[encoder_type], codec_display, "hw_decode+hw_encode">>,
                  cmd |-> <<"ffmpeg", "-y", "-hide_banner", "-hwaccel", hwaccel>>
                          \o (IF hwaccel_output_format # NoneVal
                              THEN <<"-hwaccel_output_format", hwaccel_output_format>>
                              ELSE <<>>)
                          \o <<"-i", "filepath", "-c:v", hw_encoder, "-b:v", "bitrate">>
                          \o tail]
            ELSE [name |-> <<hw_display[encoder_type], codec_display, "sw_decode+hw_encode">>
                           \o (IF limited THEN <<"limit_fps">> ELSE <<>>),
                  cmd |-> <<"ffmpeg", "-y", "-hide_banner", "-i", "filepath">>
                          \o (IF limited THEN <<"-vf", "fps=max_fps">> ELSE <<>>)
                          \o <<"-c:v", hw_encoder, "-b:v", "bitrate">> \o tail]

\* the calls followed: every encoder with the decode modes the scheduler
\* proposes for it (never HW_DECODE for the CPU), source codecs in and outside
\* the list, and every output codec and limit flag of the configuration
CommandCalls ==
    {c \in [fn : {"build_encode_command"},
            source_codec : supported_hw_decode_codecs
                               \cup {"wmv3", "vc1", "prores", "mpeg4"},
            encoder_type : {NVENC, QSV, VIDEOTOOLBOX, CPU},
            decode_mode : {HW_DECODE, SW_DECODE_LIMITED, SW_DECODE},
            config : [output_codec : {"hevc", "avc", "av1"},
                      limit_fps_software_decode : BOOLEAN,
                      limit_fps_software_encode : BOOLEAN],
            done : {FALSE}, ret : {NoneVal}] :
        c.encoder_type = CPU => c.decode_mode # HW_DECODE}

BuildCommand ==
    /\ call.fn = "build_encode_command"
    /\ ~call.done
    /\ call' = [call EXCEPT !.done = TRUE,
                            !.ret = build_encode_command(call.source_codec,
                                        call.encoder_type, call.decode_mode, call.config)]
    /\ UNCHANGED <<schedVars, regVars, batchVars, boot, main>>

CallsInit ==
    /\ SchedInit
    /\ submitted = 1
    /\ cfg = [enabled_encoders |-> <<>>, cpu_fallback |-> TRUE, hw_max |-> 1,
              cpu_max |-> 1, max_total_concurrent |-> 1]
    /\ RegIdle
    /\ BatchIdle
    /\ BootIdle
    /\ main = [base |-> "run", depth |-> 0, lock |-> FALSE, signals |-> 0]
    /\ call \in BitrateCalls \cup PathCalls \cup CommandCalls

NextCalls ==
    \/ CalcBitrate
    \/ ResolvePaths
    \/ BuildCommand

SpecCalls == CallsInit /\ [][NextCalls]_vars

Max(a, b) == IF a >= b THEN a ELSE b

\* C22 as claimed: without a forced bitrate the returned bitrate lies between
\* MIN_BITRATE and the cap of the short side's bucket (the largest bucket
\* when the short side exceeds every threshold), and it is at most
\* BITRATE_RATIO times the source bitrate unless it is the floor.
IsBucket(table, short_side, r) ==
    \/ short_side <= r /\ \A q \in DOMAIN table : short_side <= q => r <= q
    \/ \A q \in DOMAIN table : q < short_side /\ q <= r

AutoBitrateReturned ==
    call.fn = "calculate_target_bitrate" /\ call.done /\ call.forced_value = 0

CallTable ==
    IF call.max_bitrate_by_resolution.none THEN MAX_BITRATE_BY_RESOLUTION
    ELSE call.max_bitrate_by_resolution.dict

CallShortSide == Min(call.size[1], call.size[2])

C22_BitrateWithinBucket ==
    AutoBitrateReturned =>
        /\ MIN_BITRATE <= call.ret
        /\ \A r \in DOMAIN CallTable :
              IsBucket(CallTable, CallShortSide, r) => call.ret <= CallTable[r]
        /\ \/ call.ret = MIN_BITRATE
           \/ call.ret * BITRATE_RATIO[2] <= call.original_bitrate * BITRATE_RATIO[1]

\* C22: without a forced bitrate the returned bitrate is at least MIN_BITRATE
\* and at most the larger of MIN_BITRATE and the cap of the short side's
\* bucket (the largest bucket when the short side exceeds every threshold),
\* and it is at most BITRATE_RATIO times the source bitrate unless it is the
\* floor.
C22_BitrateWithinFloorAndBucket ==
    AutoBitrateReturned =>
        /\ MIN_BITRATE <= call.ret
        /\ \A r \in DOMAIN CallTable :
              IsBucket(CallTable, CallShortSide, r)
                  => call.ret <= Max(MIN_BITRATE, CallTable[r])
        /\ \/ call.ret = MIN_BITRATE
           \/ call.ret * BITRATE_RATIO[2] <= call.original_bitrate * BITRATE_RATIO[1]

\* C22 witness: a call has returned the floor for a frame whose bucket has a
\* cap below the floor
C22_Witness ==
    /\ AutoBitrateReturned
    /\ \E r \in DOMAIN CallTable :
          IsBucket(CallTable, CallShortSide, r) /\ CallTable[r] < call.ret

PathsReturned == call.fn = "resolve_output_paths" /\ call.done

\* what the mirrored file is to be called: the name up to its last dot
\* followed by "mp4", and the whole name followed by "mp4" when its only dot
\* is its first character
Renamed(name) ==
    IF Len(name) = 2 /\ name[1] = <<>>
    THEN Append(name, <<"mp4">>)
    ELSE Append(SubSeq(name, 1, Len(name) - 1), <<"mp4">>)

\* C25: with keep_structure the final path is the output folder followed by
\* the directories of the input's path relative to the input folder and by
\* the file's name with its stem kept and its extension replaced by mp4;
\* without keep_structure the final path is a file directly in the output
\* folder.
C25_MirroredOrFlat ==
    PathsReturned =>
        LET new_filename == call.ret[1]
            rel == call.relative
            out == call.output_folder
        IN  IF call.keep_structure
            THEN new_filename
                   = out \o SubSeq(rel, 1, Len(rel) - 1) \o <<Renamed(rel[Len(rel)])>>
            ELSE /\ Len(new_filename) = Len(out) + 1
                 /\ SubSeq(new_filename, 1, Len(out)) = out

\* C25 witness: a file with a dot in its stem, two directories below the
\* input folder, has been mapped with keep_structure
C25_Witness ==
    /\ PathsReturned
    /\ call.keep_structure
    /\ Len(call.relative) = 3
    /\ Len(call.relative[3]) = 3
    /\ Len(call.ret[1]) = Len(call.output_folder) + 3

\* C26: the temporary path is in the directory of the final path and its
\* basename is "tmp_" followed by the basename of the final path, with and
\* without keep_structure.
C26_TempIsSibling ==
    PathsReturned =>
        LET new_filename == call.ret[1]
            temp_filename == call.ret[2]
            n == Len(new_filename)
        IN  /\ Len(temp_filename) = n
            /\ SubSeq(temp_filename, 1, n - 1) = SubSeq(new_filename, 1, n - 1)
            /\ Len(temp_filename[n]) = Len(new_filename[n])
            /\ temp_filename[n][1] = <<"tmp_">> \o new_filename[n][1]
            /\ \A k \in 2..Len(new_filename[n]) :
                  temp_filename[n][k] = new_filename[n][k]

\* C26 witness: the paths of a file in a subdirectory have been returned with
\* keep_structure, the final file lying below the output folder's root
C26_Witness ==
    /\ PathsReturned
    /\ call.keep_structure
    /\ Len(call.ret[1]) > Len(call.output_folder) + 1
    /\ Len(call.ret[2]) = Len(call.ret[1])

InCommand(token) == \E k \in 1..Len(call.ret.cmd) : call.ret.cmd[k] = token

\* a command was built for a hardware encoder in HW_DECODE mode
HwDecodeRequested ==
    /\ call.fn = "build_encode_command"
    /\ call.done
    /\ call.encoder_type # CPU
    /\ call.decode_mode = HW_DECODE

\* C23 as claimed: when HW_DECODE is requested for a hardware encoder and a
\* source codec outside the hardware-decode list, the command has no
\* -hwaccel option and the label says software decode + hardware encode.
C23_UnsupportedCodecSoftwareDecoded ==
    HwDecodeRequested /\ call.source_codec \notin {"h264", "hevc", "av1", "vp9", "mpeg2video"}
        => /\ ~InCommand("-hwaccel")
           /\ Len(call.ret.name) = 3
           /\ call.ret.name[3] = "sw_decode+hw_encode"

\* C23: when HW_DECODE is requested for a hardware encoder and a source codec
\* outside the hardware-decode list, the command has no -hwaccel option, and
\* the label says software decode + hardware encode if the encoder has an
\* encoder for the output codec and is the CPU encoder's label if it has
\* none.
C23_UnsupportedCodecNoHwaccel ==
    HwDecodeRequested /\ call.source_codec \notin {"h264", "hevc", "av1", "vp9", "mpeg2video"}
        => /\ ~InCommand("-hwaccel")
           /\ IF call.encoder_type = VIDEOTOOLBOX /\ call.config.output_codec = "av1"
              THEN call.ret.name[1] = "CPU"
              ELSE /\ Len(call.ret.name) = 3
                   /\ call.ret.name[3] = "sw_decode+hw_encode"

\* C23 witness: a command was built for NVENC, HW_DECODE and a WMV3 source
C23_Witness ==
    /\ HwDecodeRequested
    /\ call.encoder_type = NVENC
    /\ call.source_codec = "wmv3"
    /\ InCommand("hevc_nvenc")

\* C24 as claimed: with HW_DECODE requested, a WMV3 or VC-1 source is decoded
\* in hardware by the command built for QSV (-hwaccel qsv, label hardware
\* decode + hardware encode) and not by the command built for NVENC, and an
\* h264 or hevc source is decoded in hardware by the command of every
\* hardware encoder that encodes the output codec.
C24_PerEncoderDecodeTable ==
    HwDecodeRequested =>
        /\ (call.source_codec \in {"wmv3", "vc1"} /\ call.encoder_type = QSV)
              => (/\ InCommand("-hwaccel")
                  /\ InCommand("qsv")
                  /\ call.ret.name[3] = "hw_decode+hw_encode")
        /\ (call.source_codec \in {"wmv3", "vc1"} /\ call.encoder_type = NVENC)
              => ~InCommand("-hwaccel")
        /\ (/\ call.source_codec \in {"h264", "hevc"}
            /\ HW_ENCODERS[call.encoder_type][call.config.output_codec] # NoneVal)
              => (InCommand("-hwaccel") /\ call.ret.name[3] = "hw_decode+hw_encode")

\* C34 as claimed: a call that returns the all-attempts-failed result of a
\* scheduler that has slots has made at least one attempt: its retry history
\* or its error list is not empty.
C34_FailedOnlyAfterAttempt ==
    \A t \in Tasks :
        (pc[t] = "rel_total" /\ result[t] = "exhausted" /\ SlotSet(cfg) # {})
            => (retry_history[t] # <<>> \/ task_state[t].errors # <<>>)

C33_ScheduleTaskTerminates ==
    /\ [](\A t \in Tasks : task_state[t].retry_count <= max_retries)
    /\ [][\A t \in Tasks :
             (pc[t] \notin {"task_id", "select"} /\ pc'[t] = "select")
                 => task_state'[t].retry_count = task_state[t].retry_count + 1]_vars
    /\ <>(\A t \in Submitted : pc[t] = "done")

\* C33 witness: two calls have returned, one of them after it waited for the
\* other's slot until its acquisition timed out, and an attempt failed
C33_Witness ==
    /\ submitted = 2
    /\ \A t \in Submitted : pc[t] = "done"
    /\ timeouts > 0
    /\ failures > 0

\* ------------------------------------------------------------------- C40
\* a counter summed over the four slots
SlotTotal(counter) == counter[NVENC] + counter[QSV] + counter[VIDEOTOOLBOX] + counter[CPU]

\* C40: when every submitted call has returned, the slots' total_completed +
\* total_failed add up to the number of retry_history entries of the returned
\* results, and total_completed adds up to the number of results with
\* success = True.
C40_SlotTotalsMatchResults ==
    (\A t \in Submitted : pc[t] = "done") =>
        /\ SlotTotal(total_completed) + SlotTotal(total_failed) = history_entries
        /\ SlotTotal(total_completed) = Cardinality({t \in Submitted : result[t] = "success"})

\* C40 witness: two calls have returned, one with success after a failed
\* attempt of either, the slots having seen both outcomes.
C40_Witness ==
    /\ submitted = 2
    /\ \A t \in Submitted : pc[t] = "done"
    /\ \E t \in Submitted : result[t] = "success"
    /\ SlotTotal(total_failed) > 0
    /\ history_entries > 2

\* ------------------------------------------------------------------- C38
\* the decode modes _get_next_decode_mode proposes for an encoder
ProposedModes(encoder_type) ==
    IF encoder_type = CPU THEN {SW_DECODE_LIMITED, SW_DECODE} ELSE DecodeMode

\* C38 as claimed: the command built for one attempt key differs from the
\* command built for the same file and encoder with any other decode mode
\* the scheduler proposes, for every encoder, source codec and limit flag.
C38_AttemptKeysBuildDifferentCommands ==
    (call.fn = "build_encode_command" /\ call.done) =>
        \A m \in ProposedModes(call.encoder_type) \ {call.decode_mode} :
            build_encode_command(call.source_codec, call.encoder_type, m, call.config).cmd
                # call.ret.cmd

\* ------------------------------------------------------------- C36, C37
\* the paths resolved for another file of the same run
OtherPaths ==
    {resolve_output_paths(call.input_folder \o c.relative, call.input_folder,
                          call.output_folder, call.keep_structure) :
         c \in {d \in PathCalls : d.relative # call.relative}}

\* C36 as claimed: with keep_structure on, no other input file under the
\* input root is given the same final path or the same temporary path.
C36_DistinctInputsDistinctPaths ==
    (PathsReturned /\ call.keep_structure) =>
        \A other \in OtherPaths : other[1] # call.ret[1] /\ other[2] # call.ret[2]

\* C37 as claimed: the temporary path of a file is the final path of no other
\* file of the run, and no final path has a name that cleanup_temp_files
\* removes from the output tree.
C37_TempNeverAFinalPath ==
    PathsReturned =>
        /\ \A other \in OtherPaths : other[1] # call.ret[2]
        /\ ~is_temp(call.ret[1][Len(call.ret[1])])

MaxChain == 3

\* hybrid.py line 164: max_wait_attempts
max_wait_attempts == 200

HYBRID == "HybridScheduler.schedule_task"

\* A scheduler as HybridScheduler.__init__ (hybrid.py 25-70) builds it from
\* encoder_configs in the order of create_scheduler_from_config (nvenc, qsv,
\* cpu), and a schedule_task call about to be made on it with timeout=None.
\* pools is the set of keys of encoder_pools (the enabled configurations),
\* fallback_to the fallback_chain dictionary (NoneVal: no entry), kept for
\* enabled encoders only; the CPU has no fallback_to.
HybridCalls ==
    {c \in [fn : {HYBRID},
            pools : SUBSET {NVENC, QSV, CPU},
            max_concurrent : [{NVENC, QSV, CPU} -> 1..MaxSlot],
            fallback_to : [{NVENC, QSV, CPU} -> {NoneVal, NVENC, QSV, CPU}],
            cpu_fallback : BOOLEAN,
            strategy : {"priority", "least_loaded"},
            max_total_concurrent : TotalCaps,
            total_semaphore : TotalCaps,
            current_tasks : {[e \in {NVENC, QSV, CPU} |-> 0]},
            pc : {"start"},
            current_encoder : {NoneVal},
            fallback_chain : {<<>>},
            wait_attempts : {0},
            ret : {NoneVal}] :
        /\ c.total_semaphore = c.max_total_concurrent
        /\ c.fallback_to[CPU] = NoneVal
        /\ c.max_concurrent[CPU] = 1
        /\ \A e \in {NVENC, QSV} \ c.pools :
              c.fallback_to[e] = NoneVal /\ c.max_concurrent[e] = 1}

\* EncoderPool.can_accept_task (pool.py 70-73)
can_accept_task(self, e) == self.current_tasks[e] < self.max_concurrent[e]

\* _get_next_encoder whose least_loaded branch compares with <=, so that the
\* last candidate of least load wins
_get_next_encoder_LastMin(self) ==
    LET enabled == SelectSeq(<<NVENC, QSV>>, LAMBDA e : e \in self.pools)
        cpu_available == self.cpu_fallback /\ CPU \in self.pools /\ can_accept_task(self, CPU)
        candidates == IF self.strategy = "priority" \/ ~cpu_available
                      THEN enabled ELSE Append(enabled, CPU)
        accepting == {k \in 1..Len(candidates) : can_accept_task(self, candidates[k])}
        load_leq(a, b) == self.current_tasks[a] * self.max_concurrent[b]
                              <= self.current_tasks[b] * self.max_concurrent[a]
        best == {k \in accepting : \A j \in accepting : load_leq(candidates[k], candidates[j])}
    IN  IF enabled = <<>> THEN NoneVal
        ELSE IF self.strategy = "priority"
        THEN IF accepting # {}
             THEN candidates[CHOOSE k \in accepting : \A j \in accepting : k <= j]
             ELSE IF cpu_available THEN CPU ELSE NoneVal
        ELSE IF accepting # {}
             THEN candidates[CHOOSE k \in best : \A j \in best : k >= j]
             ELSE NoneVal

\* _get_next_encoder (hybrid.py 72-117) for the strategies priority and
\* least_loaded.  priority: the first enabled encoder whose pool accepts a
\* task, else the CPU if cpu_available.  least_loaded: among the enabled
\* encoders, followed by the CPU if cpu_available, the first accepting one of
\* least current_tasks / max_concurrent (the comparison is load < min_load).
\* enabled is self.enabled_encoders, the enabled encoders other than the CPU.
_get_next_encoder(self) ==
    LET enabled == SelectSeq(<<NVENC, QSV>>, LAMBDA e : e \in self.pools)
        cpu_available == self.cpu_fallback /\ CPU \in self.pools /\ can_accept_task(self, CPU)
        candidates == IF self.strategy = "priority" \/ ~cpu_available
                      THEN enabled ELSE Append(enabled, CPU)
        accepting == {k \in 1..Len(candidates) : can_accept_task(self, candidates[k])}
        load_leq(a, b) == self.current_tasks[a] * self.max_concurrent[b]
                              <= self.current_tasks[b] * self.max_concurrent[a]
        best == {k \in accepting : \A j \in accepting : load_leq(candidates[k], candidates[j])}
    IN  IF enabled = <<>> THEN NoneVal
        ELSE IF self.strategy = "priority"
        THEN IF accepting # {}
             THEN candidates[CHOOSE k \in accepting : \A j \in accepting : k <= j]
             ELSE IF cpu_available THEN CPU ELSE NoneVal
        ELSE IF accepting # {}
             THEN candidates[CHOOSE k \in best : \A j \in best : k <= j]
             ELSE NoneVal

\* _get_fallback_encoder (hybrid.py 119-129)
_get_fallback_encoder(self, current) ==
    LET fallback == self.fallback_to[current] IN
    IF fallback # NoneVal /\ fallback \in self.pools THEN fallback
    ELSE IF self.cpu_fallback /\ current # CPU /\ CPU \in self.pools THEN CPU
    ELSE NoneVal

\* a return statement of schedule_task, then the finally clause (line 251):
\* self.total_semaphore.release()
HybridReturn(self, success, encoder_used, error) ==
    [self EXCEPT !.pc = "returned",
                 !.total_semaphore = @ + 1,
                 !.ret = [success |-> success, encoder_used |-> encoder_used,
                          error |-> error, fallback_chain |-> self.fallback_chain]]

\* lines 145-156: the global permit, the first _get_next_encoder call, and
\* the return when there is no pool at all
HybridStart ==
    /\ call.fn = HYBRID
    /\ call.pc = "start"
    /\ call.total_semaphore > 0
    /\ LET held == [call EXCEPT !.total_semaphore = @ - 1] IN
       call' = IF call.pools = {}
               THEN HybridReturn(held, FALSE, NoneVal, "no_encoder")
               ELSE [held EXCEPT !.pc = "loop", !.current_encoder = _get_next_encoder(call)]
    /\ UNCHANGED <<schedVars, regVars, batchVars, boot, main>>

\* lines 167-211, one iteration up to the call of task_func: without an
\* encoder wait_attempts is counted and _get_next_encoder asked again after
\* the sleep; with one, its pool is acquired (pool.py 82-85) and the encoder
\* is appended to fallback_chain
HybridLoop ==
    /\ call.fn = HYBRID
    /\ call.pc = "loop"
    /\ call' =
         IF call.current_encoder = NoneVal
         THEN IF call.wait_attempts + 1 >= max_wait_attempts
              THEN HybridReturn([call EXCEPT !.wait_attempts = @ + 1], FALSE, NoneVal, "all_busy")
              ELSE [call EXCEPT !.wait_attempts = @ + 1,
                                !.current_encoder = _get_next_encoder(call)]
         ELSE [call EXCEPT !.wait_attempts = 0,
                           !.current_tasks[call.current_encoder] = @ + 1,
                           !.fallback_chain = Append(@, call.current_encoder),
                           !.pc = "task"]
    /\ UNCHANGED <<schedVars, regVars, batchVars, boot, main>>

\* lines 213-241: task_func returns or raises, the pool is released
\* (pool.py 98-107), and on failure the fallback encoder is the next one
HybridTask(o) ==
    /\ call.fn = HYBRID
    /\ call.pc = "task"
    /\ o # "success" => Len(call.fallback_chain) < MaxChain
    /\ LET e == call.current_encoder
           released == [call EXCEPT !.current_tasks[e] = @ - 1]
           next_encoder == _get_fallback_encoder(call, e)
       IN  call' = IF o = "success" THEN HybridReturn(released, TRUE, e, NoneVal)
                   ELSE IF next_encoder = NoneVal
                   THEN HybridReturn(released, FALSE, NoneVal, "all_failed")
                   ELSE [released EXCEPT !.pc = "loop", !.current_encoder = next_encoder]
    /\ UNCHANGED <<schedVars, regVars, batchVars, boot, main>>

NextHybrid ==
    \/ HybridStart
    \/ HybridLoop
    \/ \E o \in Outcomes : HybridTask(o)

\* one schedule_task call on a fresh HybridScheduler, no other call under way
HybridInit ==
    /\ SchedInit /\ submitted = 1
    /\ cfg = [enabled_encoders |-> <<>>, cpu_fallback |-> TRUE, hw_max |-> 1,
              cpu_max |-> 1, max_total_concurrent |-> 1]
    /\ RegIdle /\ BatchIdle /\ BootIdle
    /\ main = [base |-> "run", depth |-> 0, lock |-> FALSE, signals |-> 0]
    /\ call \in HybridCalls

SpecHybrid == HybridInit /\ [][NextHybrid]_vars

\* ------------------------------------------------------------------- C32
\* C32: with a single task and nothing else running, wherever schedule_task
\* asks for an encoder the priority strategy and the least_loaded strategy
\* return the same one, whatever the enabled encoders, their max_concurrent
\* and the attempts that failed before; the encoders tried and the result of
\* the call depend on the strategy through this choice only.
C32_StrategiesPickTheSameEncoder ==
    (call.fn = HYBRID /\ call.pc \in {"start", "loop"}) =>
        _get_next_encoder([call EXCEPT !.strategy = "priority"])
            = _get_next_encoder([call EXCEPT !.strategy = "least_loaded"])

\* C32 witness: under least_loaded, with both hardware pools and the CPU
\* pool, the call has returned after its first encoder failed.
C32_Witness ==
    /\ call.fn = HYBRID
    /\ call.strategy = "least_loaded"
    /\ call.pools = {NVENC, QSV, CPU}
    /\ call.cpu_fallback
    /\ call.pc = "returned"
    /\ Len(call.fallback_chain) = 2
    /\ call.ret.success

\* ------------------------------------------------------------------- C35
\* C35 as claimed: whatever the fallback configuration and however many
\* attempts fail, schedule_task attempts no encoder twice, so it makes no
\* more attempts than there are pools before it returns, and when it has
\* returned the global permit is back.
C35_EachEncoderOnceThenReturn ==
    call.fn = HYBRID =>
        /\ \A i, j \in 1..Len(call.fallback_chain) :
              i # j => call.fallback_chain[i] # call.fallback_chain[j]
        /\ Len(call.fallback_chain) <= Cardinality(call.pools)
        /\ call.pc = "returned" => call.total_semaphore = call.max_total_concurrent

=============================================================================
